---- MODULE Spec2Model ----
(***************************************************************************)
(* A model of the Shopify WhatsApp Launcher: the persistence store         *)
(* (database.py: SimpleFileDB and SQLAlchemyDB; database2.py: the older    *)
(* SimpleFileDB), the signature verifiers, the OAuth callback, the script  *)
(* tag provisioning and the request handlers of main.py.                   *)
(*                                                                         *)
(* Python dicts are functions whose DOMAIN is the set of keys; an Optional *)
(* result is a sequence of length 0 (None) or 1.  Strings that the code    *)
(* takes apart (URLs, query strings) are sequences of tokens.  Timestamps  *)
(* are logical call times: the value of the clock `now` when the call      *)
(* reads datetime.now() / datetime.utcnow().                               *)
(***************************************************************************)
EXTENDS Integers, Sequences, FiniteSets, Bags, TLC

VARIABLES
    data,       \* database.py  SimpleFileDB.data (in memory)
    disk,       \* database.py  the content of app_data.json
    data2,      \* database2.py SimpleFileDB.data (in memory)
    disk2,      \* database2.py the content of app_data.json
    tables,     \* database.py  the committed rows of the three SQL tables
    now,        \* the clock read by datetime.now() / datetime.utcnow()
    call,       \* the last PersistenceStore call and how it returned
    backend,    \* DB_BACKEND: which store main.py's `db` is
    env,        \* SHOPIFY_API_SECRET and SHOPIFY_API_KEY as read at import
    tasks,      \* the bag of request handlers in flight
    scriptTags, \* the platform's script registrations, per shop
    last,       \* the last request answered: its inputs and its response
    clicked,    \* per shop: log_widget_click calls that returned normally
    vin,        \* the input handed to a verifier
    vout        \* what the verifier returned

vars == <<data, disk, data2, disk2, tables, now, call, backend, env, tasks,
          scriptTags, last, clicked, vin, vout>>

storeVars == <<data, disk, data2, disk2, tables, now, call>>
httpVars == <<backend, env, tasks, scriptTags, last, clicked>>
verifyVars == <<vin, vout>>

----------------------------------------------------------------------------
(* Bounds of the model. *)

\* SpecStore: the clock stops the store after this many timestamped calls.
MaxTime == 2
\* Spec: the requests the process takes.
MaxRequests == 3
\* Request handlers in flight at once.
MaxTasks == 2

(* The values requests and calls are drawn from. *)
Tenants == {"t1", "t2"}
Credentials == {"tokA", "tokB"}
\* Phone numbers, character by character; <<>> is "" or a missing field.
PhoneNumbers == {<<"+", "1", " ", "5", "-", "5">>, <<"1", "5">>, <<"c", "-", "m">>, <<>>}
Messages == {"hello"}

\* Python's None where a timestamp is expected (database.py:77).
NoTime == 0
None == <<>>
Some(v) == <<v>>

----------------------------------------------------------------------------
(* Python dict operations. *)

EmptyDict == [k \in {} |-> 0]
Put(d, k, v) == [x \in (DOMAIN d) \cup {k} |-> IF x = k THEN v ELSE d[x]]
Pop(d, k) == [x \in (DOMAIN d) \ {k} |-> d[x]]
Get(d, k) == IF k \in DOMAIN d THEN Some(d[k]) ELSE None

\* _load_data when there is no file: the three empty mappings.
EmptyStore ==
    [installations |-> EmptyDict, whatsapp_configs |-> EmptyDict, analytics |-> EmptyDict]

ZeroAnalytics == [widget_clicks |-> 0, first_click |-> NoTime, last_click |-> NoTime]

\* The outcomes of a durable write: it succeeds, open() fails (the file is
\* left as it was), or the write fails after open(.., 'w') truncated the file.
IoOutcomes == {"ok", "open_fails", "write_fails"}

\* The file on disk: a document, or the remains of a failed write.
Document(d) == [valid |-> TRUE, doc |-> d]
Truncated == [valid |-> FALSE, doc |-> EmptyStore]

----------------------------------------------------------------------------
(* database.py: SimpleFileDB.  Each operator is the new value of self.data. *)

\* _save_data: the new content of the file.  An exception is caught and
\* printed, so the caller never learns of it.
File_save_data(d, file, io) ==
    CASE io = "ok" -> Document(d)
      [] io = "open_fails" -> file
      [] OTHER -> Truncated

File_save_installation(d, shop, access_token, t) ==
    [d EXCEPT !.installations =
        Put(@, shop, [access_token |-> access_token, shop |-> shop, installed_at |-> t])]

File_get_installation(d, shop) == Get(d.installations, shop)

\* A remove_installation that forgets the configuration.
File_remove_installation_KeepsConfig(d, shop) ==
    [d EXCEPT !.installations = Pop(@, shop), !.analytics = Pop(@, shop)]

\* A remove_installation that clears the three dictionaries.
File_remove_installation_Everyone(d, shop) ==
    [installations |-> EmptyDict, whatsapp_configs |-> EmptyDict, analytics |-> EmptyDict]

File_remove_installation(d, shop) ==
    [d EXCEPT !.installations = Pop(@, shop),
              !.whatsapp_configs = Pop(@, shop),
              !.analytics = Pop(@, shop)]

File_save_whatsapp_config(d, shop, phone_number, initial_message, t) ==
    [d EXCEPT !.whatsapp_configs =
        Put(@, shop, [phone_number |-> phone_number,
                      initial_message |-> initial_message,
                      updated_at |-> t])]

File_get_whatsapp_config(d, shop) == Get(d.whatsapp_configs, shop)

\* A log_widget_click that sets first_click every time.
File_clicked_OverwritesFirst(a, t) ==
    [widget_clicks |-> a.widget_clicks + 1, first_click |-> t, last_click |-> t]

\* The record log_widget_click leaves for a shop whose record was `a`.
File_clicked(a, t) ==
    [widget_clicks |-> a.widget_clicks + 1,
     first_click |-> IF a.first_click = NoTime THEN t ELSE a.first_click,
     last_click |-> t]

File_log_widget_click(d, shop, t) ==
    LET a == IF shop \in DOMAIN d.analytics THEN d.analytics[shop] ELSE ZeroAnalytics
    IN  [d EXCEPT !.analytics = Put(@, shop, File_clicked(a, t))]

File_get_analytics(d, shop) ==
    IF shop \in DOMAIN d.analytics THEN d.analytics[shop] ELSE ZeroAnalytics

File_get_all_installations(d) == d.installations

----------------------------------------------------------------------------
(* database2.py: SimpleFileDB.  It differs from database.py's in           *)
(* remove_installation alone.                                              *)

File2_save_installation(d, shop, access_token, t) ==
    [d EXCEPT !.installations =
        Put(@, shop, [access_token |-> access_token, shop |-> shop, installed_at |-> t])]

File2_get_installation(d, shop) == Get(d.installations, shop)

File2_remove_installation(d, shop) ==
    [d EXCEPT !.installations = IF shop \in DOMAIN @ THEN Pop(@, shop) ELSE @,
              !.whatsapp_configs = IF shop \in DOMAIN @ THEN Pop(@, shop) ELSE @]

File2_save_whatsapp_config(d, shop, phone_number, initial_message, t) ==
    [d EXCEPT !.whatsapp_configs =
        Put(@, shop, [phone_number |-> phone_number,
                      initial_message |-> initial_message,
                      updated_at |-> t])]

File2_get_whatsapp_config(d, shop) == Get(d.whatsapp_configs, shop)

File2_log_widget_click(d, shop, t) ==
    LET a == IF shop \in DOMAIN d.analytics THEN d.analytics[shop] ELSE ZeroAnalytics
    IN  [d EXCEPT !.analytics =
            Put(@, shop,
                [widget_clicks |-> a.widget_clicks + 1,
                 first_click |-> IF a.first_click = NoTime THEN t ELSE a.first_click,
                 last_click |-> t])]

File2_get_analytics(d, shop) ==
    IF shop \in DOMAIN d.analytics THEN d.analytics[shop] ELSE ZeroAnalytics

----------------------------------------------------------------------------
(* database.py: SQLAlchemyDB.  A table is the function from primary key to *)
(* row.  Each mutating operator is the content of the tables the session   *)
(* holds when the `with self.session()` block ends; SQL_session commits    *)
(* it or rolls it back.                                                    *)

\* session(): commit at the end of the block; if it fails, roll back and
\* re-raise.  The result is the committed tables and whether it raised.
SQL_session(tb, pending, io) ==
    IF io = "ok" THEN [tables |-> pending, raised |-> FALSE]
    ELSE [tables |-> tb, raised |-> TRUE]

\* A save_installation that leaves installed_at of an existing row alone.
SQL_save_installation_KeepsDate(tb, shop, access_token, t) ==
    IF shop \in DOMAIN tb.installations
    THEN [tb EXCEPT !.installations[shop].access_token = access_token]
    ELSE [tb EXCEPT !.installations =
            Put(@, shop, [shop |-> shop, access_token |-> access_token, installed_at |-> t])]

SQL_save_installation(tb, shop, access_token, t) ==
    IF shop \in DOMAIN tb.installations
    THEN [tb EXCEPT !.installations[shop].access_token = access_token,
                    !.installations[shop].installed_at = t]
    ELSE [tb EXCEPT !.installations =
            Put(@, shop, [shop |-> shop, access_token |-> access_token, installed_at |-> t])]

SQL_get_installation(tb, shop) ==
    IF shop \in DOMAIN tb.installations
    THEN Some([shop |-> tb.installations[shop].shop,
               access_token |-> tb.installations[shop].access_token,
               installed_at |-> tb.installations[shop].installed_at])
    ELSE None

\* A remove_installation that leaves the analytics row.
SQL_remove_installation_KeepsAnalytics(tb, shop) ==
    [tb EXCEPT !.installations = Pop(@, shop),
               !.whatsapp_configs = Pop(@, shop)]

SQL_remove_installation(tb, shop) ==
    [tb EXCEPT !.installations = Pop(@, shop),
               !.whatsapp_configs = Pop(@, shop),
               !.analytics = Pop(@, shop)]

\* A save_whatsapp_config that leaves updated_at of an existing row alone.
SQL_save_whatsapp_config_KeepsDate(tb, shop, phone_number, initial_message, t) ==
    IF shop \in DOMAIN tb.whatsapp_configs
    THEN [tb EXCEPT !.whatsapp_configs[shop].phone_number = phone_number,
                    !.whatsapp_configs[shop].initial_message = initial_message]
    ELSE [tb EXCEPT !.whatsapp_configs =
            Put(@, shop, [shop |-> shop, phone_number |-> phone_number,
                          initial_message |-> initial_message, updated_at |-> t])]

SQL_save_whatsapp_config(tb, shop, phone_number, initial_message, t) ==
    IF shop \in DOMAIN tb.whatsapp_configs
    THEN [tb EXCEPT !.whatsapp_configs[shop].phone_number = phone_number,
                    !.whatsapp_configs[shop].initial_message = initial_message,
                    !.whatsapp_configs[shop].updated_at = t]
    ELSE [tb EXCEPT !.whatsapp_configs =
            Put(@, shop, [shop |-> shop, phone_number |-> phone_number,
                          initial_message |-> initial_message, updated_at |-> t])]

SQL_get_whatsapp_config(tb, shop) ==
    IF shop \in DOMAIN tb.whatsapp_configs
    THEN Some([phone_number |-> tb.whatsapp_configs[shop].phone_number,
               initial_message |-> tb.whatsapp_configs[shop].initial_message,
               updated_at |-> tb.whatsapp_configs[shop].updated_at])
    ELSE None

\* The row log_widget_click leaves for a shop whose row was `obj`.
SQL_clicked(obj, t) ==
    [obj EXCEPT !.widget_clicks = @ + 1,
                !.last_click = t,
                !.first_click = IF @ = NoTime THEN t ELSE @]

SQL_log_widget_click(tb, shop, t) ==
    IF shop \in DOMAIN tb.analytics
    THEN [tb EXCEPT !.analytics[shop] = SQL_clicked(@, t)]
    ELSE [tb EXCEPT !.analytics =
            Put(@, shop, [shop |-> shop, widget_clicks |-> 1,
                          first_click |-> t, last_click |-> t])]

SQL_get_analytics(tb, shop) ==
    IF shop \in DOMAIN tb.analytics
    THEN [widget_clicks |-> tb.analytics[shop].widget_clicks,
          first_click |-> tb.analytics[shop].first_click,
          last_click |-> tb.analytics[shop].last_click]
    ELSE ZeroAnalytics

SQL_get_all_installations(tb) ==
    [shop \in DOMAIN tb.installations |->
        [shop |-> tb.installations[shop].shop,
         access_token |-> tb.installations[shop].access_token,
         installed_at |-> tb.installations[shop].installed_at]]


----------------------------------------------------------------------------
(* The PersistenceStore on its own: every call is made on the three        *)
(* implementations at once, with the same arguments, at the same time and  *)
(* with the same fate of the durable write.                                *)

MutatingCalls ==
    {"save_installation", "remove_installation", "save_whatsapp_config", "log_widget_click"}

NoCall == [op |-> "none", shop |-> "", io |-> "ok", raisedFile |-> FALSE,
           raisedFile2 |-> FALSE, raisedSql |-> FALSE, t |-> NoTime,
           had |-> [installation |-> FALSE, config |-> FALSE, clicks |-> 0,
                    access_token |-> ""],
           access_token |-> "", phone_number |-> <<>>, initial_message |-> "",
           faulted |-> FALSE]

\* How a call on SimpleFileDB returns: _save_data swallows every exception.
File_raises(io) == FALSE

\* What the caller of `op` sees, what the store held for the shop when the
\* call was made, and whether a durable write has failed so far.
Returned(op, shop, io, t) ==
    [op |-> op, shop |-> shop, io |-> io, raisedFile |-> File_raises(io),
     raisedFile2 |-> File_raises(io), raisedSql |-> SQL_session(tables, tables, io).raised,
     t |-> t,
     had |-> [installation |-> File_get_installation(data, shop) # None,
              config |-> File_get_whatsapp_config(data, shop) # None,
              clicks |-> File_get_analytics(data, shop).widget_clicks,
              access_token |-> IF File_get_installation(data, shop) = None THEN ""
                               ELSE File_get_installation(data, shop)[1].access_token],
     access_token |-> "", phone_number |-> <<>>, initial_message |-> "",
     faulted |-> call.faulted \/ io # "ok"]

StoreInit ==
    /\ data = EmptyStore /\ disk = Document(EmptyStore)
    /\ data2 = EmptyStore /\ disk2 = Document(EmptyStore)
    /\ tables = EmptyStore
    /\ now = 1
    /\ call = NoCall

save_installation(shop, access_token, io) ==
    /\ now <= MaxTime
    /\ data' = File_save_installation(data, shop, access_token, now)
    /\ disk' = File_save_data(data', disk, io)
    /\ data2' = File2_save_installation(data2, shop, access_token, now)
    /\ disk2' = File_save_data(data2', disk2, io)
    /\ tables' = SQL_session(tables, SQL_save_installation(tables, shop, access_token, now), io).tables
    /\ now' = now + 1
    /\ call' = [Returned("save_installation", shop, io, now) EXCEPT !.access_token = access_token]

remove_installation(shop, io) ==
    /\ data' = File_remove_installation(data, shop)
    /\ disk' = File_save_data(data', disk, io)
    /\ data2' = File2_remove_installation(data2, shop)
    /\ disk2' = File_save_data(data2', disk2, io)
    /\ tables' = SQL_session(tables, SQL_remove_installation(tables, shop), io).tables
    /\ now' = now
    /\ call' = Returned("remove_installation", shop, io, now)

save_whatsapp_config(shop, phone_number, initial_message, io) ==
    /\ now <= MaxTime
    /\ data' = File_save_whatsapp_config(data, shop, phone_number, initial_message, now)
    /\ disk' = File_save_data(data', disk, io)
    /\ data2' = File2_save_whatsapp_config(data2, shop, phone_number, initial_message, now)
    /\ disk2' = File_save_data(data2', disk2, io)
    /\ tables' = SQL_session(tables,
                    SQL_save_whatsapp_config(tables, shop, phone_number, initial_message, now),
                    io).tables
    /\ now' = now + 1
    /\ call' = [Returned("save_whatsapp_config", shop, io, now)
                    EXCEPT !.phone_number = phone_number, !.initial_message = initial_message]

log_widget_click(shop, io) ==
    /\ now <= MaxTime
    /\ data' = File_log_widget_click(data, shop, now)
    /\ disk' = File_save_data(data', disk, io)
    /\ data2' = File2_log_widget_click(data2, shop, now)
    /\ disk2' = File_save_data(data2', disk2, io)
    /\ tables' = SQL_session(tables, SQL_log_widget_click(tables, shop, now), io).tables
    /\ now' = now + 1
    /\ call' = Returned("log_widget_click", shop, io, now)

StoreSaveInstallation ==
    \E shop \in Tenants, tok \in Credentials, io \in IoOutcomes :
        /\ save_installation(shop, tok, io)
        /\ UNCHANGED <<httpVars, verifyVars>>

StoreRemoveInstallation ==
    \E shop \in Tenants, io \in IoOutcomes :
        /\ remove_installation(shop, io)
        /\ UNCHANGED <<httpVars, verifyVars>>

StoreSaveWhatsappConfig ==
    \E shop \in Tenants, p \in PhoneNumbers \ {<<>>}, m \in Messages, io \in IoOutcomes :
        /\ save_whatsapp_config(shop, p, m, io)
        /\ UNCHANGED <<httpVars, verifyVars>>

StoreLogWidgetClick ==
    \E shop \in Tenants, io \in IoOutcomes :
        /\ log_widget_click(shop, io)
        /\ UNCHANGED <<httpVars, verifyVars>>

StoreNext ==
    \/ StoreSaveInstallation
    \/ StoreRemoveInstallation
    \/ StoreSaveWhatsappConfig
    \/ StoreLogWidgetClick

----------------------------------------------------------------------------
(* main.py: the configuration read at import and the signature verifiers.  *)

\* os.getenv returned None.
Unset == "<unset>"
\* SHOPIFY_API_SECRET and SHOPIFY_API_KEY when they are set.
ApiSecret == "shpss"
ApiKey == "api-key"
\* A key that is not the shared secret.
OtherKey == "other-key"

\* What a verifier hands back: a value, or an exception past its boundary.
Raised == [kind |-> "raise", value |-> ""]
Ret(v) == [kind |-> "return", value |-> v]
\* Python's None as a returned shop; `not shop` holds of None and of "".
NoShop == "<None>"
Falsy(shop) == shop \in {NoShop, ""}

\* hmac.new(key, msg, sha256) in the given encoding: equal digests come from
\* equal keys and equal messages alone.
Digest(enc, key, msg) == [enc |-> enc, key |-> key, msg |-> msg]
\* A header or parameter that was not sent (None).
NoSignature == [enc |-> "none", key |-> "", msg |-> <<>>]

\* A string of the code as a value: the text of a one-token sequence, ""
\* for the empty one, and one value for every other text.
Text(seq) ==
    IF seq = <<>> THEN ""
    ELSE IF Len(seq) = 1 THEN seq[1] ELSE "<other>"

\* Whether the token sequence starts with `old`.
StartsWith(seq, old) ==
    /\ Len(seq) >= Len(old)
    /\ SubSeq(seq, 1, Len(old)) = old

\* str.replace(old, ""): every occurrence of `old`, left to right, removed.
RECURSIVE Replace(_, _)
Replace(seq, old) ==
    IF seq = <<>> THEN <<>>
    ELSE IF StartsWith(seq, old) THEN Replace(SubSeq(seq, Len(old) + 1, Len(seq)), old)
    ELSE <<Head(seq)>> \o Replace(Tail(seq), old)

\* The texts the code looks for, token by token.
Https == <<"https:", "/", "/">>
Http == <<"http:", "/", "/">>
Admin == <<"/", "admin">>

\* str.split("/")[0]: the tokens before the first "/".
RECURSIVE SplitHead(_)
SplitHead(seq) ==
    IF seq = <<>> \/ Head(seq) = "/" THEN <<>>
    ELSE <<Head(seq)>> \o SplitHead(Tail(seq))

(* verify_shopify_webhook: the base64 HMAC of the raw body against the     *)
(* header.  With no secret, None.encode raises; with no header,            *)
(* compare_digest(str, None) raises.                                       *)
verify_shopify_webhook(body, hmac_header, secret) ==
    IF secret = Unset THEN Raised
    ELSE IF hmac_header = NoSignature THEN Raised
    ELSE Ret(Digest("base64", secret, body) = hmac_header)

(* verify_shopify_request.  query_params is the dict of the query string.  *)
\* The order sorted() gives the keys.
KeyRank(k) ==
    CASE k = "hmac" -> 1 [] k = "host" -> 2 [] k = "shop" -> 3
      [] k = "signature" -> 4 [] OTHER -> 5

RECURSIVE SortedItems(_, _)
SortedItems(q, keys) ==
    IF keys = {} THEN <<>>
    ELSE LET k == CHOOSE x \in keys : \A y \in keys : KeyRank(x) <= KeyRank(y)
         IN  <<k, "=", q[k], "&">> \o SortedItems(q, keys \ {k})

\* "&".join(f"{k}={v}" ...): no "&" after the last pair.
QueryString(q) ==
    LET s == SortedItems(q, DOMAIN q)
    IN  IF s = <<>> THEN <<>> ELSE SubSeq(s, 1, Len(s) - 1)

\* A verifier that leaves the legacy `signature` parameter in the string.
verify_shopify_request_KeepsSignature(query_params, secret) ==
    LET shop == IF "shop" \in DOMAIN query_params THEN query_params["shop"] ELSE NoShop
        hmac_param == IF "hmac" \in DOMAIN query_params THEN query_params["hmac"] ELSE NoSignature
        q == Pop(query_params, "hmac")
    IN  IF Falsy(shop) \/ hmac_param = NoSignature THEN Ret(NoShop)
        ELSE IF secret = Unset THEN Raised
        ELSE IF Digest("hex", secret, QueryString(q)) = hmac_param THEN Ret(shop)
        ELSE Ret(NoShop)

verify_shopify_request(query_params, secret) ==
    LET shop == IF "shop" \in DOMAIN query_params THEN query_params["shop"] ELSE NoShop
        hmac_param == IF "hmac" \in DOMAIN query_params THEN query_params["hmac"] ELSE NoSignature
        q == Pop(Pop(query_params, "hmac"), "signature")
    IN  IF Falsy(shop) \/ hmac_param = NoSignature THEN Ret(NoShop)
        ELSE IF secret = Unset THEN Raised
        ELSE IF Digest("hex", secret, QueryString(q)) = hmac_param THEN Ret(shop)
        ELSE Ret(NoShop)

(* verify_session_token.  A token is the literal text the code tests for,  *)
(* text that is no JWT, or a JWT: its claims, its alg header and the key   *)
(* it was signed with.  An absent claim is <<>>.                           *)
DevToken(shop) == [kind |-> "dev-token-", text |-> shop]
LiteralToken(text) == [kind |-> "literal", text |-> text]
MalformedToken == [kind |-> "malformed", text |-> ""]

\* The shop the code takes from the dest claim.
ShopOfDest(dest) ==
    Text(SplitHead(Replace(Replace(Replace(dest, Https), Http), Admin)))
\* The shop the code takes from the iss claim.
ShopOfIss(iss) ==
    IF iss = <<>> THEN NoShop
    ELSE Text(SplitHead(Replace(Replace(iss, Https), Http)))

\* jwt.decode(token, secret, algorithms=["HS256"], audience=api_key) returns.
JwtVerifies(tok, secret, api_key) ==
    /\ secret # Unset
    /\ tok.alg = "HS256"
    /\ tok.key = secret
    /\ ~tok.expired
    /\ IF api_key = Unset THEN tok.aud = <<>> ELSE tok.aud = <<api_key>>

verify_session_token(tok, secret, api_key) ==
    IF tok.kind = "dev-token-" THEN Ret(tok.text)
    ELSE IF tok.kind = "literal" THEN Ret(NoShop)
    ELSE IF tok.kind = "malformed" THEN Ret(NoShop)
    ELSE LET shop == IF tok.dest # <<>> THEN ShopOfDest(tok.dest) ELSE ShopOfIss(tok.iss)
         IN  IF Falsy(shop) THEN Ret(NoShop)
             ELSE IF JwtVerifies(tok, secret, api_key) THEN Ret(shop)
             ELSE Ret(NoShop)


----------------------------------------------------------------------------
(* The verifiers on their own: each step hands one input to one verifier.  *)

Secrets == {ApiSecret, Unset}
ApiKeys == {ApiKey, Unset}

\* The claims a token may carry for dest and iss; <<>> is a missing claim.
DestClaims ==
    {<<>>,
     Https \o <<"t1">> \o Admin,
     Http \o <<"t2">> \o Admin,
     Https \o <<"t1", "/", "t2">>,
     Https}
IssClaims == {<<>>, Https \o <<"t2">> \o Admin}

Jwts ==
    [kind : {"jwt"}, text : {""}, alg : {"HS256", "none"}, key : {ApiSecret, OtherKey},
     expired : BOOLEAN, aud : {<<>>, <<ApiKey>>, <<"other-app">>},
     dest : DestClaims, iss : IssClaims]

SessionTokens ==
    {DevToken(shop) : shop \in Tenants \cup {""}}
        \cup {LiteralToken("dev-token"), LiteralToken("fallback-token"), MalformedToken}
        \cup Jwts

\* The raw bytes of a webhook body: {"domain":shop}, with or without a
\* space after the brace, and bytes that are no JSON.
Body(shop, spaced) ==
    IF spaced THEN <<"{", " ", "domain", ":", shop, "}">>
    ELSE <<"{", "domain", ":", shop, "}">>
NotJson == <<"{">>
NoDomain == <<"{", "}">>
WebhookBodies ==
    {Body(shop, spaced) : shop \in Tenants, spaced \in BOOLEAN} \cup {NotJson, NoDomain}

WebhookHeaders ==
    {Digest("base64", k, b) : k \in {ApiSecret, OtherKey}, b \in WebhookBodies}
        \cup {NoSignature}

\* The query strings of a request: shop, host and signature present or
\* not, and an hmac parameter that is missing, right, made with another
\* key, or made for another query.
UnsignedQueries ==
    UNION {[keys -> {"t1", "t2", "", "h"}] : keys \in SUBSET {"shop", "host", "signature"}}
WellFormed(q) ==
    /\ "shop" \in DOMAIN q => q["shop"] \in {"t1", "t2", ""}
    /\ "host" \in DOMAIN q => q["host"] = "h"
    /\ "signature" \in DOMAIN q => q["signature"] = "h"
Queries ==
    LET plain == {q \in UnsignedQueries : WellFormed(q)}
        signed(q, k, m) == Put(q, "hmac", Digest("hex", k, QueryString(Pop(m, "signature"))))
    IN  plain
          \cup {signed(q, k, q) : q \in plain, k \in {ApiSecret, OtherKey}}
          \cup {signed(q, ApiSecret, Put(q, "shop", "t2")) : q \in plain}

NoInput == [fn |-> "none", arg |-> <<>>, hmac_header |-> NoSignature,
            secret |-> Unset, api_key |-> Unset]
Input(fn, arg, hdr, secret, api_key) ==
    [fn |-> fn, arg |-> arg, hmac_header |-> hdr, secret |-> secret, api_key |-> api_key]

VerifySessionToken ==
    \E tok \in SessionTokens, secret \in Secrets, api_key \in ApiKeys :
        /\ vin = NoInput
        /\ vin' = Input("verify_session_token", tok, NoSignature, secret, api_key)
        /\ vout' = verify_session_token(tok, secret, api_key)
        /\ UNCHANGED <<storeVars, httpVars>>

VerifyRequest ==
    \E q \in Queries, secret \in Secrets :
        /\ vin = NoInput
        /\ vin' = Input("verify_shopify_request", q, NoSignature, secret, ApiKey)
        /\ vout' = verify_shopify_request(q, secret)
        /\ UNCHANGED <<storeVars, httpVars>>

VerifyWebhook ==
    \E body \in WebhookBodies, hdr \in WebhookHeaders, secret \in Secrets :
        /\ vin = NoInput
        /\ vin' = Input("verify_shopify_webhook", body, hdr, secret, ApiKey)
        /\ vout' = verify_shopify_webhook(body, hdr, secret)
        /\ UNCHANGED <<storeVars, httpVars>>

VerifyInit == vin = NoInput /\ vout = Ret(NoShop)

VerifyNext == VerifySessionToken \/ VerifyRequest \/ VerifyWebhook

----------------------------------------------------------------------------
(* main.py: the store the handlers use, `from database import db`.         *)

\* database.py:204-207, DB_BACKEND.
Backends == {"file", "postgres"}

\* The fates of a durable write that a handler can tell apart or pass on:
\* open_fails differs from write_fails in the file it leaves alone.
HandlerIo == {"ok", "write_fails"}

db_get_installation(shop) ==
    IF backend = "file" THEN File_get_installation(data, shop)
    ELSE SQL_get_installation(tables, shop)

db_get_whatsapp_config(shop) ==
    IF backend = "file" THEN File_get_whatsapp_config(data, shop)
    ELSE SQL_get_whatsapp_config(tables, shop)

db_get_analytics(shop) ==
    IF backend = "file" THEN File_get_analytics(data, shop)
    ELSE SQL_get_analytics(tables, shop)

\* A mutating call on db: SimpleFileDB changes self.data and rewrites the
\* file; SQLAlchemyDB commits the session or rolls it back.
db_write(newData, pending, io) ==
    IF backend = "file"
    THEN /\ data' = newData
         /\ disk' = File_save_data(newData, disk, io)
         /\ UNCHANGED tables
    ELSE /\ tables' = SQL_session(tables, pending, io).tables
         /\ UNCHANGED <<data, disk>>

\* Whether that call raises.
db_raises(io) ==
    IF backend = "file" THEN File_raises(io) ELSE SQL_session(tables, tables, io).raised

db_save_installation(shop, access_token, io) ==
    db_write(File_save_installation(data, shop, access_token, now),
             SQL_save_installation(tables, shop, access_token, now), io)

db_remove_installation(shop, io) ==
    db_write(File_remove_installation(data, shop), SQL_remove_installation(tables, shop), io)

db_save_whatsapp_config(shop, phone_number, initial_message, io) ==
    db_write(File_save_whatsapp_config(data, shop, phone_number, initial_message, now),
             SQL_save_whatsapp_config(tables, shop, phone_number, initial_message, now), io)

dbVars == <<data, disk, tables>>

----------------------------------------------------------------------------
(* main.py: the handlers.  Every handler is `async def` and runs on the    *)
(* one event loop of uvicorn.run(app); requests.get/post and the db calls  *)
(* are synchronous, so a handler is suspended at its awaits alone.         *)

\* A handler in flight: where it is and what it holds.
Task(handler, pc, shop, obj) == [handler |-> handler, pc |-> pc, shop |-> shop, obj |-> obj]

Started(task) ==
    /\ BagCardinality(tasks) < MaxTasks
    /\ tasks' = tasks (+) SetToBag({task})
Moved(task, to) == tasks' = (tasks (-) SetToBag({task})) (+) SetToBag({to})
Ended(task) == tasks' = tasks (-) SetToBag({task})

\* A handler does not start or resume while another is inside a
\* synchronous call.
LoopIdle_Threaded == TRUE

LoopIdle ==
    \A task \in BagToSet(tasks) :
        task.pc \notin {"read", "write", "create", "post_token", "get_scripts", "post_script"}

NoAnswer == [seq |-> 0, handler |-> "none", request |-> <<>>, status |-> 0,
             detail |-> "", effect |-> <<>>]

\* Requests are taken while fewer than MaxRequests were taken so far.
Admits == last.seq + BagCardinality(tasks) < MaxRequests

\* The response of a handler, with what it was asked and what it did; seq
\* counts the responses sent.
Answer(handler, request, status, detail, effect) ==
    last' = [seq |-> last.seq + 1, handler |-> handler, request |-> request,
             status |-> status, detail |-> detail, effect |-> effect]

(* GET /auth/callback *)

\* What the token endpoint may answer; `raised` is requests.post raising.
TokenResponses ==
    [raised : {FALSE}, status_code : {200}, access_token : {None} \cup {Some(c) : c \in Credentials}]
        \cup [raised : {FALSE}, status_code : {400}, access_token : {None, Some("tokB")}]
        \cup {[raised |-> TRUE, status_code |-> 0, access_token |-> None]}

\* An auth_callback that does not look at the status code.
auth_callback_path_NoStatusCheck(error, shop, code, response) ==
    CASE error -> [status |-> 400, detail |-> "Authorization denied", save |-> FALSE, posts |-> 0]
      [] ~error /\ (shop = "" \/ code = "") ->
            [status |-> 400, detail |-> "Missing required parameters", save |-> FALSE,
             posts |-> 0]
      [] ~error /\ shop # "" /\ code # "" /\ response.raised ->
            [status |-> 500, detail |-> "requests.post raised", save |-> FALSE, posts |-> 1]
      [] ~error /\ shop # "" /\ code # "" /\ ~response.raised
            /\ response.access_token = None ->
            [status |-> 500, detail |-> "KeyError: access_token", save |-> FALSE, posts |-> 1]
      [] OTHER -> [status |-> 307, detail |-> "/dashboard", save |-> TRUE, posts |-> 1]

\* An auth_callback that posts the code again after a refusal.
auth_callback_path_Retry(error, shop, code, response) ==
    CASE error -> [status |-> 400, detail |-> "Authorization denied", save |-> FALSE, posts |-> 0]
      [] ~error /\ (shop = "" \/ code = "") ->
            [status |-> 400, detail |-> "Missing required parameters", save |-> FALSE,
             posts |-> 0]
      [] ~error /\ shop # "" /\ code # "" /\ response.raised ->
            [status |-> 500, detail |-> "requests.post raised", save |-> FALSE, posts |-> 1]
      [] ~error /\ shop # "" /\ code # "" /\ ~response.raised
            /\ response.status_code # 200 ->
            [status |-> 400, detail |-> "Failed to get access token", save |-> FALSE,
             posts |-> 2]
      [] ~error /\ shop # "" /\ code # "" /\ ~response.raised
            /\ response.status_code = 200 /\ response.access_token = None ->
            [status |-> 500, detail |-> "KeyError: access_token", save |-> FALSE, posts |-> 1]
      [] OTHER -> [status |-> 307, detail |-> "/dashboard", save |-> TRUE, posts |-> 1]

\* The way through auth_callback up to db.save_installation; `posts` counts
\* the calls of requests.post on the way.
auth_callback_path(error, shop, code, response) ==
    CASE error -> [status |-> 400, detail |-> "Authorization denied", save |-> FALSE, posts |-> 0]
      [] ~error /\ (shop = "" \/ code = "") ->
            [status |-> 400, detail |-> "Missing required parameters", save |-> FALSE,
             posts |-> 0]
      [] ~error /\ shop # "" /\ code # "" /\ response.raised ->
            [status |-> 500, detail |-> "requests.post raised", save |-> FALSE, posts |-> 1]
      [] ~error /\ shop # "" /\ code # "" /\ ~response.raised
            /\ response.status_code # 200 ->
            [status |-> 400, detail |-> "Failed to get access token", save |-> FALSE,
             posts |-> 1]
      [] ~error /\ shop # "" /\ code # "" /\ ~response.raised
            /\ response.status_code = 200 /\ response.access_token = None ->
            [status |-> 500, detail |-> "KeyError: access_token", save |-> FALSE, posts |-> 1]
      [] OTHER -> [status |-> 307, detail |-> "/dashboard", save |-> TRUE, posts |-> 1]

\* The query strings of the callback: an error parameter, a missing shop,
\* a missing code, or shop and code.
CallbackRequests ==
    {[error |-> TRUE, shop |-> "t1", code |-> "code"],
     [error |-> FALSE, shop |-> "", code |-> "code"],
     [error |-> FALSE, shop |-> "t1", code |-> ""]}
        \cup [error : {FALSE}, shop : Tenants, code : {"code"}]

\* No POST was made.
NotAsked == [raised |-> FALSE, status_code |-> 0, access_token |-> None]

auth_callback ==
    \E query \in CallbackRequests :
      \E response \in IF query.error \/ query.shop = "" \/ query.code = ""
                      THEN {NotAsked} ELSE TokenResponses :
        LET shop == query.shop
            path == auth_callback_path(query.error, shop, query.code, response)
            request == [query |-> query, response |-> response]
        IN  /\ LoopIdle
            /\ Admits
            /\ IF path.save
               THEN \E io \in HandlerIo :
                      /\ db_save_installation(shop, response.access_token[1], io)
                      /\ now' = now + 1
                      /\ IF db_raises(io)
                         THEN Answer("auth_callback", request, 500, "save_installation raised",
                                     [saved |-> FALSE, db_raised |-> TRUE,
                                      posts |-> path.posts])
                         ELSE Answer("auth_callback", request, path.status, path.detail,
                                     [saved |-> TRUE, db_raised |-> FALSE,
                                      posts |-> path.posts])
               ELSE /\ UNCHANGED <<dbVars, now>>
                    /\ Answer("auth_callback", request, path.status, path.detail,
                              [saved |-> FALSE, db_raised |-> FALSE, posts |-> path.posts])
            /\ UNCHANGED <<data2, disk2, call, backend, env, tasks, scriptTags,
                           clicked, verifyVars>>

(* install_script_tag *)

\* APP_URL and the texts built from it, token by token.
APP_URL == "APP_URL"
WidgetBase == <<APP_URL, "/whatsapp-widget.js">>
WidgetSrc(shop) == <<APP_URL, "/whatsapp-widget.js", "?shop=", shop>>
\* A registration left by a deployment under another APP_URL.
ForeignSrc(shop) == <<"https://old.example", "/whatsapp-widget.js", "?shop=", shop>>

\* The registrations among `scripts` whose src starts with the widget's.
WidgetScripts(scripts) ==
    {i \in 1..Len(scripts) : StartsWith(scripts[i], WidgetBase)}

\* How the store and the platform answer the three steps.  The list call
\* answers 200 with the registrations ("ok"), a non-success status with a
\* JSON body that has no script_tags ("error_json"), or requests.get or
\* response.json() raises; the create call creates, is refused with a
\* non-success status, or requests.post raises.
Platforms ==
    [lookup : {"ok"}, list : {"ok", "error_json"}, create : {"created", "rejected", "raise"}]
        \cup {[lookup |-> "ok", list |-> "raise", create |-> "created"],
              [lookup |-> "raise", list |-> "ok", create |-> "created"]}

NotProvisioned == [called |-> FALSE, before |-> 0, list_called |-> FALSE, create_called |-> FALSE,
                   raised |-> FALSE, scripts |-> <<>>]

\* install_script_tag(shop): the calls made, whether it raised, and the
\* registrations of the shop afterwards.
install_script_tag(installation, scripts, shop, platform) ==
    LET before == Cardinality(WidgetScripts(scripts))
        done == [called |-> TRUE, before |-> before, list_called |-> FALSE, create_called |-> FALSE,
                 raised |-> FALSE, scripts |-> scripts]
        existing_scripts == IF platform.list = "ok" THEN scripts ELSE <<>>
        widget_script_exists == WidgetScripts(existing_scripts) # {}
    IN  IF platform.lookup = "raise" THEN [done EXCEPT !.raised = TRUE]
        ELSE IF installation = None THEN done
        ELSE IF platform.list = "raise" THEN [done EXCEPT !.list_called = TRUE, !.raised = TRUE]
        ELSE IF widget_script_exists THEN [done EXCEPT !.list_called = TRUE]
        ELSE CASE platform.create = "created" ->
                    [done EXCEPT !.list_called = TRUE, !.create_called = TRUE,
                                 !.scripts = Append(scripts, WidgetSrc(shop))]
               [] platform.create = "rejected" ->
                    [done EXCEPT !.list_called = TRUE, !.create_called = TRUE]
               [] OTHER ->
                    [done EXCEPT !.list_called = TRUE, !.create_called = TRUE, !.raised = TRUE]

(* POST /api/configure-whatsapp *)

Digits == {"0", "1", "2", "3", "4", "5", "6", "7", "8", "9"}

\* A validation that asks only for something other than "+", "-" and " ".
ValidPhone_NonEmpty(phone_number) ==
    Replace(Replace(Replace(phone_number, <<"+">>), <<"-">>), <<" ">>) # <<>>

\* str.isdigit() of an ASCII string.
isdigit(str) == str # <<>> /\ \A i \in 1..Len(str) : str[i] \in Digits

\* A validation that leaves "+", "-" and " " in place.
ValidPhone_DigitsOnly(phone_number) == isdigit(phone_number)

\* phone_number.replace("+", "").replace("-", "").replace(" ", "").isdigit()
ValidPhone(phone_number) ==
    isdigit(Replace(Replace(Replace(phone_number, <<"+">>), <<"-">>), <<" ">>))

\* The Authorization header: None, or "Bearer " and a token.
NoAuthorization == [bearer |-> FALSE, token |-> MalformedToken]
Bearer(tok) == [bearer |-> TRUE, token |-> tok]
ValidJwt(shop) ==
    [kind |-> "jwt", text |-> "", alg |-> "HS256", key |-> ApiSecret, expired |-> FALSE,
     aud |-> <<ApiKey>>, dest |-> Https \o <<shop>> \o Admin, iss |-> <<>>]
Authorizations ==
    {NoAuthorization}
        \cup {Bearer(DevToken(shop)) : shop \in Tenants}
        \cup {Bearer(ValidJwt("t1")), Bearer([ValidJwt("t1") EXCEPT !.key = OtherKey]),
              Bearer(LiteralToken("fallback-token"))}

\* The request body: bytes that are no JSON, or an object with the fields
\* the handler reads (NoShop and <<>> and "" for a field that is missing).
NotJsonBody == [json |-> FALSE, shop |-> NoShop, phone_number |-> <<>>, initial_message |-> ""]
ValidBody(shop) ==
    [json |-> TRUE, shop |-> shop, phone_number |-> <<"+", "1", " ", "5", "-", "5">>,
     initial_message |-> "hello"]
ConfigBodies ==
    {ValidBody(shop) : shop \in Tenants \cup {NoShop}}
        \cup {[ValidBody("t1") EXCEPT !.phone_number = p] : p \in PhoneNumbers}
        \cup {[ValidBody("t1") EXCEPT !.initial_message = ""], NotJsonBody}

\* The status after the try/except around install_script_tag.
api_configure_whatsapp_status_Uncaught(provision) ==
    IF provision.raised THEN 500 ELSE 200

api_configure_whatsapp_status(provision) == 200

\* Up to the first `await request.json()`: lines 260-270 when no token
\* names a shop, lines 260-286 when one does.
api_configure_whatsapp_start ==
    \E authorization \in Authorizations :
        LET verified == IF authorization.bearer
                        THEN verify_session_token(authorization.token, env.secret, env.api_key).value
                        ELSE NoShop
            request == [authorization |-> authorization]
        IN  /\ LoopIdle
            /\ Admits
            /\ IF Falsy(verified)
               THEN /\ Started(Task("api_configure_whatsapp", "body", NoShop, None))
                    /\ UNCHANGED last
               ELSE IF db_get_installation(verified) = None
               THEN /\ Answer("api_configure_whatsapp", request, 401, "App not installed",
                              [shop |-> verified, saved |-> FALSE, db_raised |-> FALSE,
                               provision |-> NotProvisioned])
                    /\ UNCHANGED tasks
               ELSE /\ Started(Task("api_configure_whatsapp", "form", verified, None))
                    /\ UNCHANGED last
            /\ UNCHANGED <<storeVars, backend, env, scriptTags, clicked, verifyVars>>

\* A handler that takes the shop of the body whenever it names an installed
\* shop, and the shop of the token otherwise.
api_configure_whatsapp_shop_BodyFirst(task, body) ==
    IF body.json /\ ~Falsy(body.shop) /\ db_get_installation(body.shop) # None THEN body.shop
    ELSE IF task.pc = "form" THEN task.shop
    ELSE NoShop

\* The shop the handler goes on with once the body is read.
api_configure_whatsapp_shop(task, body) ==
    IF task.pc = "form" THEN task.shop
    ELSE IF ~body.json THEN NoShop
    ELSE IF ~Falsy(body.shop) /\ db_get_installation(body.shop) = None THEN NoShop
    ELSE body.shop

\* The rejection the body earns, or 200 when the handler goes on to save.
api_configure_whatsapp_check(task, body) ==
    LET shop == api_configure_whatsapp_shop(task, body)
    IN  CASE task.pc = "form" /\ ~body.json ->
                [status |-> 500, detail |-> "request.json() raised"]
          [] task.pc = "body" /\ Falsy(shop) ->
                [status |-> 401, detail |-> "Missing or invalid session token"]
          [] task.pc = "body" /\ ~Falsy(shop) /\ db_get_installation(shop) = None ->
                [status |-> 401, detail |-> "App not installed"]
          [] OTHER ->
                IF body.phone_number = <<>> \/ body.initial_message = ""
                THEN [status |-> 400, detail |-> "Missing required fields"]
                ELSE IF ~ValidPhone(body.phone_number)
                THEN [status |-> 400, detail |-> "Invalid phone number format"]
                ELSE [status |-> 200, detail |-> "Configuration saved successfully"]

\* From the first `await request.json()` to the response, or into
\* install_script_tag as far as the list call when a create call follows.
api_configure_whatsapp_finish ==
    \E task \in BagToSet(tasks), body \in ConfigBodies :
        LET shop == api_configure_whatsapp_shop(task, body)
            check == api_configure_whatsapp_check(task, body)
            request == [body |-> body, token_shop |-> task.shop]
        IN  /\ LoopIdle
            /\ task.pc \in {"body", "form"}
            /\ IF check.status # 200
               THEN /\ Answer("api_configure_whatsapp", request, check.status, check.detail,
                              [shop |-> shop, saved |-> FALSE, db_raised |-> FALSE,
                               provision |-> NotProvisioned])
                    /\ Ended(task)
                    /\ UNCHANGED <<dbVars, now, scriptTags>>
               ELSE \E io \in HandlerIo, platform \in Platforms :
                      LET provision ==
                            install_script_tag(db_get_installation(shop), scriptTags[shop],
                                               shop, platform)
                      IN  /\ platform.lookup = "raise" => backend = "postgres"
                          /\ db_save_whatsapp_config(shop, body.phone_number,
                                                     body.initial_message, io)
                          /\ now' = now + 1
                          /\ IF db_raises(io)
                             THEN /\ Answer("api_configure_whatsapp", request, 500,
                                            "save_whatsapp_config raised",
                                            [shop |-> shop, saved |-> FALSE, db_raised |-> TRUE,
                                             provision |-> NotProvisioned])
                                  /\ Ended(task)
                                  /\ UNCHANGED scriptTags
                             ELSE IF provision.create_called
                             THEN /\ platform.create = "created"
                                  /\ Moved(task, Task("api_configure_whatsapp", "create", shop,
                                                      Some([request |-> request,
                                                            list |-> platform.list])))
                                  /\ UNCHANGED <<last, scriptTags>>
                             ELSE /\ Answer("api_configure_whatsapp", request,
                                            api_configure_whatsapp_status(provision),
                                            check.detail,
                                            [shop |-> shop, saved |-> TRUE,
                                             db_raised |-> platform.lookup = "raise",
                                             provision |-> [provision EXCEPT !.scripts = <<>>]])
                                  /\ Ended(task)
                                  /\ UNCHANGED scriptTags
            /\ UNCHANGED <<data2, disk2, call, backend, env, clicked, verifyVars>>

\* install_script_tag from `if not widget_script_exists` on: the create
\* call, and the answer of the handler that called it.
install_script_tag_create ==
    \E task \in BagToSet(tasks), create \in {"created", "rejected", "raise"} :
        LET shop == task.shop
            held == task.obj[1]
            provision ==
                install_script_tag(db_get_installation(shop), scriptTags[shop], shop,
                                   [lookup |-> "ok", list |-> held.list, create |-> create])
        IN  /\ task.pc = "create"
            /\ Ended(task)
            /\ scriptTags' = [scriptTags EXCEPT ![shop] =
                                 IF create = "created" THEN Append(@, WidgetSrc(shop)) ELSE @]
            /\ Answer("api_configure_whatsapp", held.request,
                      api_configure_whatsapp_status(provision),
                      "Configuration saved successfully",
                      [shop |-> shop, saved |-> TRUE, db_raised |-> FALSE,
                       provision |-> [provision EXCEPT !.scripts = <<>>]])
            /\ UNCHANGED <<storeVars, backend, env, clicked, verifyVars>>

(* POST /configure-whatsapp *)

\* The form fields; a field that is empty counts as missing.
FormBodies == [shop : Tenants, phone_number : PhoneNumbers, initial_message : Messages]

\* The handler has no await in its body: it runs from the form to the
\* response in one piece.  The call of install_script_tag is commented out.
configure_whatsapp ==
    \E form \in FormBodies :
        LET shop == form.shop
            installation == db_get_installation(shop)
            idle == [saved |-> FALSE, db_raised |-> FALSE, provision |-> NotProvisioned]
        IN  /\ LoopIdle
            /\ Admits
            /\ IF form.phone_number = <<>>
               THEN /\ Answer("configure_whatsapp", form, 422, "Field required", idle)
                    /\ UNCHANGED <<dbVars, now>>
               ELSE IF installation = None
               THEN /\ Answer("configure_whatsapp", form, 401, "App not installed", idle)
                    /\ UNCHANGED <<dbVars, now>>
               ELSE IF ~ValidPhone(form.phone_number)
               THEN /\ Answer("configure_whatsapp", form, 400, "Invalid phone number format", idle)
                    /\ UNCHANGED <<dbVars, now>>
               ELSE \E io \in HandlerIo :
                      /\ db_save_whatsapp_config(shop, form.phone_number,
                                                 form.initial_message, io)
                      /\ now' = now + 1
                      /\ IF db_raises(io)
                         THEN Answer("configure_whatsapp", form, 500,
                                     "save_whatsapp_config raised",
                                     [idle EXCEPT !.db_raised = TRUE])
                         ELSE Answer("configure_whatsapp", form, 303, "/dashboard?success=1",
                                     [idle EXCEPT !.saved = TRUE])
            /\ UNCHANGED <<data2, disk2, call, backend, env, tasks, scriptTags,
                           clicked, verifyVars>>

(* POST /api/widget-click *)

ClickBodies == [json : {TRUE}, shop : Tenants \cup {NoShop}] \cup {[json |-> FALSE, shop |-> NoShop]}

\* The request is accepted and the handler waits in `await request.json()`.
widget_click_request ==
    /\ LoopIdle
    /\ Admits
    /\ Started(Task("widget_click", "await_json", NoShop, None))
    /\ UNCHANGED <<storeVars, backend, env, scriptTags, last, clicked, verifyVars>>

\* The body has arrived: lines 502-504, up to the call of db.log_widget_click.
widget_click_resume ==
    \E task \in BagToSet(tasks), body \in ClickBodies :
        /\ LoopIdle
        /\ task.pc = "await_json"
        /\ IF ~body.json
           THEN /\ Answer("widget_click", [body |-> body], 200, "success: False",
                          [logged |-> FALSE, db_raised |-> FALSE,
                           in_flight |-> BagCardinality(tasks) - 1])
                /\ Ended(task)
           ELSE IF Falsy(body.shop)
           THEN /\ Answer("widget_click", [body |-> body], 200, "success: True",
                          [logged |-> FALSE, db_raised |-> FALSE,
                           in_flight |-> BagCardinality(tasks) - 1])
                /\ Ended(task)
           ELSE /\ Moved(task, Task("widget_click", "read", body.shop, None))
                /\ UNCHANGED last
        /\ UNCHANGED <<storeVars, backend, env, scriptTags, clicked, verifyVars>>

\* log_widget_click reads the shop's counter: self.data["analytics"][shop]
\* for `+= 1`, db.get(Analytics, shop) in a session.
log_widget_click_read ==
    \E task \in BagToSet(tasks) :
        /\ task.pc = "read"
        /\ Moved(task, Task("widget_click", "write", task.shop,
                            IF backend = "file" THEN Get(data.analytics, task.shop)
                            ELSE Get(tables.analytics, task.shop)))
        /\ UNCHANGED <<storeVars, backend, env, scriptTags, last, clicked, verifyVars>>

\* log_widget_click writes the counter it has incremented and persists it;
\* widget_click answers.  An INSERT of a row that exists by now fails.
log_widget_click_write ==
    \E task \in BagToSet(tasks), io \in HandlerIo :
        LET shop == task.shop
            obj == task.obj
            newData ==
                [data EXCEPT !.analytics =
                    Put(@, shop, File_clicked(IF obj = None THEN ZeroAnalytics ELSE obj[1], now))]
            conflict == obj = None /\ shop \in DOMAIN tables.analytics
            pending ==
                IF obj = None
                THEN SQL_log_widget_click([tables EXCEPT !.analytics = Pop(@, shop)], shop, now)
                ELSE [tables EXCEPT !.analytics = Put(@, shop, SQL_clicked(obj[1], now))]
            raises == IF backend = "file" THEN File_raises(io)
                      ELSE conflict \/ SQL_session(tables, pending, io).raised
        IN  /\ task.pc = "write"
            /\ IF backend = "postgres" /\ conflict
               THEN UNCHANGED dbVars
               ELSE db_write(newData, pending, io)
            /\ now' = now + 1
            /\ Ended(task)
            /\ clicked' = [clicked EXCEPT ![shop] = IF raises THEN @ ELSE @ + 1]
            /\ Answer("widget_click", [body |-> [json |-> TRUE, shop |-> shop]], 200,
                      IF raises THEN "success: False" ELSE "success: True",
                      [logged |-> ~raises, db_raised |-> raises,
                       in_flight |-> BagCardinality(tasks) - 1])
            /\ UNCHANGED <<data2, disk2, call, backend, env, scriptTags, verifyVars>>

(* POST /webhooks/app/uninstalled *)

\* json.loads(body): whitespace between tokens does not count.
json_loads(body) ==
    LET c == SelectSeq(body, LAMBDA x : x # " ")
    IN  IF Len(c) = 5 /\ c[1] = "{" /\ c[2] = "domain" /\ c[3] = ":" /\ c[5] = "}"
        THEN [ok |-> TRUE, domain |-> c[4]]
        ELSE IF c = <<"{", "}">> THEN [ok |-> TRUE, domain |-> NoShop]
        ELSE [ok |-> FALSE, domain |-> NoShop]

\* json.dumps(.., separators=(",", ":")) of what json_loads returned.
json_dumps(parsed) ==
    IF ~parsed.ok THEN NotJson
    ELSE IF parsed.domain = NoShop THEN NoDomain
    ELSE Body(parsed.domain, FALSE)

\* The webhooks that arrive: a body and its X-Shopify-Hmac-Sha256 header,
\* which is the HMAC of these bytes, the HMAC of the same JSON written
\* without whitespace, an HMAC made with another key, or missing.
Signed(body) == [body |-> body, hmac_header |-> Digest("base64", ApiSecret, body)]
UninstallRequests ==
    {Signed(Body("t1", FALSE)), Signed(Body("t1", TRUE)), Signed(Body("t2", FALSE)),
     Signed(NotJson), Signed(NoDomain),
     [body |-> Body("t1", TRUE),
      hmac_header |-> Digest("base64", ApiSecret, json_dumps(json_loads(Body("t1", TRUE))))],
     [body |-> Body("t1", FALSE), hmac_header |-> Digest("base64", OtherKey, Body("t1", FALSE))],
     [body |-> Body("t1", FALSE), hmac_header |-> NoSignature]}

\* A verifier that hashes the body as re-serialized JSON.
verify_webhook_of_Reserialized(body, hmac_header, secret) ==
    verify_shopify_webhook(json_dumps(json_loads(body)), hmac_header, secret)

\* Line 537: the verifier is handed the bytes of `await request.body()`.
verify_webhook_of(body, hmac_header, secret) ==
    verify_shopify_webhook(body, hmac_header, secret)

app_uninstalled ==
    \E request \in UninstallRequests :
        LET body == request.body
            x_shopify_hmac_sha256 == request.hmac_header
            verdict == verify_webhook_of(body, x_shopify_hmac_sha256, env.secret)
            parsed == json_loads(body)
            shop == parsed.domain
        IN  /\ LoopIdle
            /\ Admits
            /\ IF verdict = Raised
               THEN /\ Answer("app_uninstalled", request, 500, "verify_shopify_webhook raised",
                              [removed |-> FALSE, db_raised |-> FALSE])
                    /\ UNCHANGED <<dbVars, clicked>>
               ELSE IF ~verdict.value
               THEN /\ Answer("app_uninstalled", request, 401, "Invalid webhook signature",
                              [removed |-> FALSE, db_raised |-> FALSE])
                    /\ UNCHANGED <<dbVars, clicked>>
               ELSE IF ~parsed.ok \/ Falsy(shop)
               THEN /\ Answer("app_uninstalled", request, 200, "success: True",
                              [removed |-> FALSE, db_raised |-> FALSE])
                    /\ UNCHANGED <<dbVars, clicked>>
               ELSE \E io \in HandlerIo :
                      /\ db_remove_installation(shop, io)
                      /\ clicked' = [clicked EXCEPT ![shop] = IF db_raises(io) THEN @ ELSE 0]
                      /\ Answer("app_uninstalled", request, 200, "success: True",
                                [removed |-> ~db_raises(io), db_raised |-> db_raises(io)])
            /\ UNCHANGED <<data2, disk2, now, call, backend, env, tasks, scriptTags, verifyVars>>

----------------------------------------------------------------------------
(* main.py: the endpoints that read.  None has an await in its body.  A    *)
(* response body is the sequence of the texts it is put together from.     *)

\* json.dumps of a configuration, of `{}` when there is none, and of a
\* counter.
ConfigText(config) ==
    IF config = None THEN <<"{}">>
    ELSE <<"phone_number">> \o config[1].phone_number
            \o <<"initial_message", config[1].initial_message,
                 "updated_at", ToString(config[1].updated_at)>>

AnalyticsText(analytics) ==
    <<"widget_clicks", ToString(analytics.widget_clicks),
      "first_click", ToString(analytics.first_click),
      "last_click", ToString(analytics.last_click)>>

\* No outbound call was made.
NoOutbound == [url |-> <<>>, headers |-> <<>>]

\* The answer of an endpoint that reads: the body it sends and the outbound
\* call it made; nothing else changes.
Page(handler, request, status, detail, body, outbound) ==
    /\ LoopIdle
    /\ Admits
    /\ Answer(handler, request, status, detail, [body |-> body, outbound |-> outbound])
    /\ UNCHANGED <<storeVars, backend, env, tasks, scriptTags, clicked, verifyVars>>

\* The query parameter `shop` of the endpoints that declare it `shop: str`.
PageShops == Tenants \cup {""}

(* GET / and GET /health *)
root ==
    /\ LoopIdle
    /\ Admits
    /\ Answer("root", <<>>, 200, "message",
              [body |-> <<"Shopify WhatsApp Launcher App">>, outbound |-> NoOutbound])
    /\ UNCHANGED <<storeVars, backend, env, tasks, scriptTags, clicked, verifyVars>>

health_check ==
    /\ LoopIdle
    /\ Admits
    /\ Answer("health_check", <<>>, 200, "status",
              [body |-> <<"healthy", ToString(now)>>, outbound |-> NoOutbound])
    /\ UNCHANGED <<storeVars, backend, env, tasks, scriptTags, clicked, verifyVars>>

(* GET /install and GET /pricing *)
SHOPIFY_SCOPES == "read_themes,write_themes,read_script_tags,write_script_tags"

install ==
    \E shop \in PageShops :
        IF shop = ""
        THEN Page("install", [shop |-> shop], 400, "Shop parameter required",
                  <<"Shop parameter required">>, NoOutbound)
        ELSE Page("install", [shop |-> shop], 307, "/admin/oauth/authorize",
                  <<"https://", shop, "/admin/oauth/authorize?", "client_id=", env.api_key,
                    "scope=", SHOPIFY_SCOPES, "redirect_uri=", APP_URL, "/auth/callback",
                    "state=", shop>>, NoOutbound)

plan_selection_url(shop) ==
    <<"https://admin.shopify.com/store/", shop, "/charges/", APP_URL, "/pricing_plans">>

pricing ==
    \E shop \in PageShops :
        IF shop = ""
        THEN Page("pricing", [shop |-> shop], 400, "Shop parameter required",
                  <<"Shop parameter required">>, NoOutbound)
        ELSE Page("pricing", [shop |-> shop], 307, "/pricing_plans",
                  plan_selection_url(shop), NoOutbound)

(* GET /dashboard *)
\* The template sees the context it is given: request, shop and config.
dashboard ==
    \E shop \in PageShops :
        IF db_get_installation(shop) = None
        THEN Page("dashboard", [shop |-> shop], 307, "/install", <<"/install?shop=", shop>>,
                  NoOutbound)
        ELSE Page("dashboard", [shop |-> shop], 200, "dashboard.html",
                  <<"dashboard.html", shop>> \o ConfigText(db_get_whatsapp_config(shop)),
                  NoOutbound)

(* GET /embedded *)
EmbeddedQueries ==
    {q \in Queries : DOMAIN q \subseteq {"shop", "host", "hmac"} /\ "host" \in DOMAIN q}

embedded_app ==
    \E query \in EmbeddedQueries :
        LET shop == IF "shop" \in DOMAIN query THEN query["shop"] ELSE NoShop
            host == query["host"]
            verified_shop == verify_shopify_request(query, env.secret)
            context == <<shop, host, env.api_key, APP_URL>>
        IN  IF Falsy(shop)
            THEN Page("embedded_app", query, 400, "Shop parameter required",
                      <<"Shop parameter required">>, NoOutbound)
            ELSE IF verified_shop = Raised
            THEN Page("embedded_app", query, 500, "verify_shopify_request raised",
                      <<"Internal Server Error">>, NoOutbound)
            ELSE IF Falsy(verified_shop.value)
            THEN Page("embedded_app", query, 401, "Invalid request", <<"Invalid request">>,
                      NoOutbound)
            ELSE IF db_get_installation(shop) = None
            THEN Page("embedded_app", query, 200, "install_embedded.html",
                      <<"install_embedded.html">> \o context, NoOutbound)
            ELSE Page("embedded_app", query, 200, "embedded_dashboard.html",
                      <<"embedded_dashboard.html">> \o context
                          \o ConfigText(db_get_whatsapp_config(shop)), NoOutbound)

(* GET /api/config, GET /api/analytics and GET /api/config-fallback *)
\* Lines 312-323 and 513-524: the shop of the bearer token, or else the
\* query parameter when that shop is installed.
session_shop(authorization, query_shop) ==
    LET verified == IF authorization.bearer
                    THEN verify_session_token(authorization.token, env.secret, env.api_key).value
                    ELSE NoShop
    IN  IF ~Falsy(verified) THEN verified
        ELSE IF ~Falsy(query_shop) /\ db_get_installation(query_shop) = None THEN NoShop
        ELSE query_shop

ApiRequests == [authorization : Authorizations, shop : Tenants \cup {NoShop}]

get_config ==
    \E request \in ApiRequests :
        LET shop == session_shop(request.authorization, request.shop)
        IN  IF Falsy(shop)
            THEN Page("get_config", request, 401, "Missing or invalid session token",
                      <<"Missing or invalid session token">>, NoOutbound)
            ELSE Page("get_config", request, 200, "config",
                      ConfigText(db_get_whatsapp_config(shop)), NoOutbound)

get_analytics ==
    \E request \in ApiRequests :
        LET shop == session_shop(request.authorization, request.shop)
        IN  IF Falsy(shop)
            THEN Page("get_analytics", request, 401, "Missing or invalid session token",
                      <<"Missing or invalid session token">>, NoOutbound)
            ELSE Page("get_analytics", request, 200, "analytics",
                      AnalyticsText(db_get_analytics(shop)), NoOutbound)

get_config_fallback ==
    \E shop \in PageShops :
        IF shop = ""
        THEN Page("get_config_fallback", [shop |-> shop], 400, "Shop parameter required",
                  <<"Shop parameter required">>, NoOutbound)
        ELSE IF db_get_installation(shop) = None
        THEN Page("get_config_fallback", [shop |-> shop], 401, "App not installed",
                  <<"App not installed">>, NoOutbound)
        ELSE Page("get_config_fallback", [shop |-> shop], 200, "config",
                  ConfigText(db_get_whatsapp_config(shop)), NoOutbound)

(* GET /debug/script-tags/{shop} *)
\* The registrations as the platform's JSON gives them.
RECURSIVE ScriptTagsText(_)
ScriptTagsText(scripts) ==
    IF scripts = <<>> THEN <<>> ELSE <<"src">> \o Head(scripts) \o ScriptTagsText(Tail(scripts))

\* How the platform answers the list call: 200 with the registrations, a
\* non-success status with a text, or requests.get raises.
ListOutcomes == {"ok", "error", "raise"}

\* A debug endpoint that returns the installation it looked up.
debug_script_tags_response_Echo(installation, scripts, outcome) ==
    IF installation = None THEN [detail |-> "error", body |-> <<"error", "App not installed">>]
    ELSE [detail |-> "success",
          body |-> <<"status", "success", "installation", installation[1].access_token>>]

\* Lines 370-404: what the endpoint returns; every return is a 200.
debug_script_tags_response(installation, scripts, outcome) ==
    IF installation = None THEN [detail |-> "error", body |-> <<"error", "App not installed">>]
    ELSE CASE outcome = "ok" ->
                [detail |-> "success",
                 body |-> <<"status", "success", "count", ToString(Len(scripts)), "script_tags">>
                            \o ScriptTagsText(scripts) \o <<"widget_scripts">>
                            \o ScriptTagsText(SelectSeq(scripts,
                                   LAMBDA src : \E i \in 1..Len(src) : src[i] = APP_URL))]
           [] outcome = "error" ->
                [detail |-> "error",
                 body |-> <<"status", "error", "status_code", "response", "<response.text>">>]
           [] OTHER ->
                [detail |-> "error", body |-> <<"status", "error", "message", "<str(e)>">>]

debug_script_tags ==
    \E shop \in Tenants, outcome \in ListOutcomes :
        LET installation == db_get_installation(shop)
            response == debug_script_tags_response(installation, scriptTags[shop], outcome)
        IN  /\ installation = None => outcome = "ok"
            /\ Page("debug_script_tags", [shop |-> shop, outcome |-> outcome], 200,
                    response.detail, response.body,
                    IF installation = None THEN NoOutbound
                    ELSE [url |-> <<"https://", shop, "/admin/api/2023-10/script_tags.json">>,
                          headers |-> <<"X-Shopify-Access-Token", installation[1].access_token,
                                        "Content-Type", "application/json">>])

(* GET /whatsapp-widget.js *)
whatsapp_widget ==
    \E shop \in PageShops :
        LET config == db_get_whatsapp_config(shop)
        IN  IF config = None
            THEN Page("whatsapp_widget", [shop |-> shop], 200, "empty", <<>>, NoOutbound)
            ELSE Page("whatsapp_widget", [shop |-> shop], 200, "js_code",
                      <<"encodeURIComponent(", config[1].initial_message, "https://wa.me/">>
                          \o Replace(Replace(Replace(config[1].phone_number, <<"+">>), <<"-">>),
                                     <<" ">>),
                      NoOutbound)

----------------------------------------------------------------------------
(* The specifications. *)

HttpIdle ==
    /\ tasks = EmptyBag
    /\ last = NoAnswer
    /\ clicked = [shop \in Tenants |-> 0]

\* What the store held when the process was started: t1 installed at time 1.
Preloaded == File_save_installation(EmptyStore, "t1", "tokA", 1)

\* The process after import: the backend and the environment it was started
\* with, the store as _load_data or the database gives it, no request yet.
\* On the platform t1 has a registration left under another APP_URL.
Init ==
    /\ data = Preloaded /\ disk = Document(Preloaded)
    /\ tables = SQL_save_installation(EmptyStore, "t1", "tokA", 1)
    /\ data2 = EmptyStore /\ disk2 = Document(EmptyStore)
    /\ now = 2
    /\ call = NoCall
    /\ VerifyInit
    /\ HttpIdle
    /\ backend \in Backends
    /\ env \in [secret : Secrets, api_key : {ApiKey}]
    /\ scriptTags = [shop \in Tenants |-> IF shop = "t1" THEN <<ForeignSrc(shop)>> ELSE <<>>]

Next ==
    \/ auth_callback
    \/ api_configure_whatsapp_start
    \/ api_configure_whatsapp_finish
    \/ install_script_tag_create
    \/ configure_whatsapp
    \/ widget_click_request
    \/ widget_click_resume
    \/ log_widget_click_read
    \/ log_widget_click_write
    \/ app_uninstalled

Spec == Init /\ [][Next]_vars

(* The platform does not answer *)

\* requests.post and requests.get are called without a timeout argument:
\* when the platform accepts the connection and sends nothing, the call does
\* not return, and neither does the handler that made it.

\* auth_callback inside requests.post of the token exchange.
auth_callback_silent ==
    \E query \in CallbackRequests :
        /\ ~query.error /\ query.shop # "" /\ query.code # ""
        /\ LoopIdle
        /\ Admits
        /\ Started(Task("auth_callback", "post_token", query.shop, None))
        /\ UNCHANGED <<storeVars, backend, env, scriptTags, last, clicked, verifyVars>>

\* api_configure_whatsapp has saved the configuration and is inside
\* requests.get of install_script_tag.
install_script_tag_list_silent ==
    \E task \in BagToSet(tasks), body \in ConfigBodies :
        LET shop == api_configure_whatsapp_shop(task, body)
            check == api_configure_whatsapp_check(task, body)
        IN  /\ LoopIdle
            /\ task.pc \in {"body", "form"}
            /\ check.status = 200
            /\ db_get_installation(shop) # None
            /\ db_save_whatsapp_config(shop, body.phone_number, body.initial_message, "ok")
            /\ now' = now + 1
            /\ Moved(task, Task("api_configure_whatsapp", "get_scripts", shop, None))
            /\ UNCHANGED <<data2, disk2, call, backend, env, scriptTags, last, clicked,
                           verifyVars>>

\* install_script_tag inside requests.post of the create call.
install_script_tag_create_silent ==
    \E task \in BagToSet(tasks) :
        /\ task.pc = "create"
        /\ Moved(task, Task("api_configure_whatsapp", "post_script", task.shop, None))
        /\ UNCHANGED <<storeVars, backend, env, scriptTags, last, clicked, verifyVars>>

SilentNext ==
    \/ Next
    \/ auth_callback_silent
    \/ install_script_tag_list_silent
    \/ install_script_tag_create_silent

\* The handlers with a platform that may stay silent; every step that can
\* be taken is taken in the end.
SpecSilent == Init /\ [][SilentNext]_vars /\ WF_vars(SilentNext)

\* The handlers together with the endpoints that read, started on either
\* backend with the secret set.
InitPages == Init /\ env.secret = ApiSecret

PagesNext ==
    \/ Next
    \/ root
    \/ health_check
    \/ install
    \/ pricing
    \/ dashboard
    \/ embedded_app
    \/ get_config
    \/ get_analytics
    \/ get_config_fallback
    \/ debug_script_tags
    \/ whatsapp_widget

SpecPages == InitPages /\ [][PagesNext]_vars

\* The store alone, the handlers at rest.
InitStore ==
    /\ StoreInit
    /\ VerifyInit
    /\ HttpIdle
    /\ backend = "file"
    /\ env = [secret |-> ApiSecret, api_key |-> ApiKey]
    /\ scriptTags = [shop \in Tenants |-> <<>>]

SpecStore == InitStore /\ [][StoreNext]_vars

\* The verifiers alone.
SpecVerify == InitStore /\ [][VerifyNext]_vars

----------------------------------------------------------------------------
(* Properties of the PersistenceStore, under SpecStore. *)

\* C2: every mutating call that returns normally has durably persisted its
\* change: after a normal return of SimpleFileDB the file holds the document
\* of self.data, and SQLAlchemyDB returns normally only when its commit
\* succeeded.  _save_data swallows the failure, so this does not hold.
C2_DurableOrError ==
    call.op \in MutatingCalls =>
        /\ call.raisedFile \/ disk = Document(data)
        /\ call.raisedSql \/ call.io = "ok"

\* C2, the state that refutes it: a mutating call has returned normally on
\* SimpleFileDB and the file does not hold what self.data holds.
C2_SilentLoss ==
    /\ call.op = "save_installation"
    /\ ~call.raisedFile
    /\ call.io = "open_fails"
    /\ File_get_installation(data, call.shop) # None
    /\ disk # Document(data)

\* C9: right after remove_installation(shop) has returned, get_installation
\* and get_whatsapp_config of the shop are absent, on SimpleFileDB and on
\* SQLAlchemyDB, whatever the store held before.
C9_RemoveDeletesBoth ==
    call.op = "remove_installation" =>
        /\ File_get_installation(data, call.shop) = None
        /\ File_get_whatsapp_config(data, call.shop) = None
        /\ ~call.raisedSql =>
              /\ SQL_get_installation(tables, call.shop) = None
              /\ SQL_get_whatsapp_config(tables, call.shop) = None

\* C9, its case: a shop that had an installation and a configuration was
\* removed and the call returned normally on both backends.
C9_RemovedExisting ==
    /\ call.op = "remove_installation"
    /\ call.had.installation /\ call.had.config
    /\ ~call.raisedFile /\ ~call.raisedSql

\* C10: after remove_installation(shop) has returned, get_analytics of the
\* shop is the zero counter in SQLAlchemyDB, in database.py's SimpleFileDB
\* and in database2.py's SimpleFileDB.  database2.py keeps the counter.
C10_CounterRemovedEverywhere ==
    (call.op = "remove_installation" /\ ~call.raisedSql) =>
        /\ SQL_get_analytics(tables, call.shop) = ZeroAnalytics
        /\ File_get_analytics(data, call.shop) = ZeroAnalytics
        /\ File2_get_analytics(data2, call.shop) = ZeroAnalytics

\* C10, the state that refutes it: a shop with one click was removed; the
\* counter is zero in database.py's two backends and still 1 in database2.py.
C10_CounterSurvives ==
    /\ call.op = "remove_installation" /\ ~call.raisedSql
    /\ call.had.clicks = 1
    /\ SQL_get_analytics(tables, call.shop) = ZeroAnalytics
    /\ File_get_analytics(data, call.shop) = ZeroAnalytics
    /\ File2_get_analytics(data2, call.shop).widget_clicks = 1

\* C12: right after save_installation(shop, access_token) has returned,
\* the one installation of the shop is the record of this call: its
\* access_token is the one passed, its installed_at is the time of the call,
\* and get_all_installations holds that record under the shop and no other,
\* on SimpleFileDB and on SQLAlchemyDB.
C12_SaveInstallationUpserts ==
    call.op = "save_installation" =>
        LET saved == [shop |-> call.shop, access_token |-> call.access_token,
                      installed_at |-> call.t]
        IN  /\ File_get_installation(data, call.shop) = Some(saved)
            /\ File_get_all_installations(data)[call.shop] = saved
            /\ ~call.raisedSql =>
                  /\ SQL_get_installation(tables, call.shop) = Some(saved)
                  /\ SQL_get_all_installations(tables)[call.shop] = saved

\* C12, its case: a shop installed with tokA was saved again with tokB at
\* time 2, on both backends.
C12_SavedAgain ==
    /\ call.op = "save_installation"
    /\ call.had.installation /\ call.had.access_token = "tokA"
    /\ call.access_token = "tokB" /\ call.t = 2
    /\ ~call.faulted

\* What get_analytics returns for the shop on the two backends of database.py
\* in a store.
Counters(d, tb, shop) == <<File_get_analytics(d, shop), SQL_get_analytics(tb, shop)>>

\* From counter `a` to counter `b` widget_clicks does not decrease and a
\* first_click that was set stays.
Grows(a, b) ==
    /\ b.widget_clicks >= a.widget_clicks
    /\ a.first_click # NoTime => b.first_click = a.first_click

\* The step is a call of `op` for the shop.
Calls(op, shop) == call'.op = op /\ call'.shop = shop

\* C13 as amended: in every store call other than remove_installation of
\* the shop, widget_clicks of the shop does not decrease and a first_click
\* that was set stays; every log_widget_click that returns leaves last_click
\* at the time of that call.
C13_CounterGrowsUntilRemoved ==
    [][\A shop \in Tenants :
        LET was == Counters(data, tables, shop)
            is == Counters(data', tables', shop)
        IN  /\ ~Calls("remove_installation", shop) =>
                  Grows(was[1], is[1]) /\ Grows(was[2], is[2])
            /\ Calls("log_widget_click", shop) =>
                  /\ is[1].last_click = call'.t
                  /\ is[1].widget_clicks = was[1].widget_clicks + 1
                  /\ ~call'.raisedSql =>
                        /\ is[2].last_click = call'.t
                        /\ is[2].widget_clicks = was[2].widget_clicks + 1]_vars

\* C13, its case: the second click of a shop: first_click is the time of
\* the first, last_click the time of the second.
C13_SecondClick ==
    /\ call.op = "log_widget_click" /\ call.had.clicks = 1 /\ ~call.faulted
    /\ Counters(data, tables, call.shop)[1] =
          [widget_clicks |-> 2, first_click |-> 1, last_click |-> 2]
    /\ Counters(data, tables, call.shop)[2] =
          [widget_clicks |-> 2, first_click |-> 1, last_click |-> 2]

\* C13 as written: over every store call widget_clicks does not decrease
\* and a first_click that was set stays.  remove_installation deletes the
\* counter.
C13_CounterNeverShrinks ==
    [][\A shop \in Tenants :
        LET was == Counters(data, tables, shop)
            is == Counters(data', tables', shop)
        IN  Grows(was[1], is[1]) /\ Grows(was[2], is[2])]_vars

\* The configuration read back is the one the call was given, stamped
\* later than the one it replaced.
ReadsBack(before, after) ==
    /\ after # None
    /\ after[1].phone_number = call'.phone_number
    /\ after[1].initial_message = call'.initial_message
    /\ before # None => after[1].updated_at > before[1].updated_at

\* C25: get_whatsapp_config after a save_whatsapp_config that returned
\* gives the phone_number and the initial_message of the call, with an
\* updated_at later than that of the configuration it replaced, on
\* SimpleFileDB and on SQLAlchemyDB; no other call changes a configuration
\* that stays stored.
C25_ConfigRoundTrip ==
    [][\A shop \in Tenants :
         LET file == File_get_whatsapp_config(data, shop)
             file_after == File_get_whatsapp_config(data', shop)
             sql == SQL_get_whatsapp_config(tables, shop)
             sql_after == SQL_get_whatsapp_config(tables', shop)
         IN  IF Calls("save_whatsapp_config", shop)
             THEN /\ ReadsBack(file, file_after)
                  /\ ~call'.raisedSql => ReadsBack(sql, sql_after)
             ELSE /\ file_after # None => file_after = file
                  /\ sql_after # None => sql_after = sql]_vars

\* C25, its case: the configuration of t1 saved at time 1 was saved again
\* at time 2 on both backends.
C25_SavedTwice ==
    /\ call.op = "save_whatsapp_config" /\ call.shop = "t1"
    /\ call.had.config /\ ~call.faulted /\ call.t = 2
    /\ File_get_whatsapp_config(data, "t1")[1].updated_at = 2
    /\ SQL_get_whatsapp_config(tables, "t1")[1].updated_at = 2

\* C14: as long as no durable write has failed, every read returns the same
\* on SimpleFileDB and on SQLAlchemyDB after the same calls.
C14_BackendsAgree ==
    ~call.faulted =>
        /\ File_get_all_installations(data) = SQL_get_all_installations(tables)
        /\ \A shop \in Tenants :
            /\ File_get_installation(data, shop) = SQL_get_installation(tables, shop)
            /\ File_get_whatsapp_config(data, shop) = SQL_get_whatsapp_config(tables, shop)
            /\ File_get_analytics(data, shop) = SQL_get_analytics(tables, shop)

\* C14, its case: a shop that had a configuration and a click was removed,
\* and no write has failed.
C14_AgreeAfterRemoval ==
    /\ call.op = "remove_installation" /\ ~call.faulted
    /\ call.had.config /\ call.had.clicks = 1

----------------------------------------------------------------------------
(* Properties of the signature verifiers, under SpecVerify. *)

\* The verifier named a tenant.
NamesTenant == vout.kind = "return" /\ ~Falsy(vout.value)

\* The token's aud is the configured API key; with no API key configured,
\* the token names no audience.
AudienceMatches(tok, api_key) ==
    IF api_key = Unset THEN tok.aud = <<>> ELSE tok.aud = <<api_key>>

\* C6: verify_session_token returns a tenant only for a JWT that carries a
\* dest claim, is signed with the configured secret, is unexpired and whose
\* aud is the API key, and then the tenant is the dest claim without scheme
\* and path; a malformed token, a token signed with another key, an expired
\* token and a token without dest are rejected.  The "dev-token-" prefix and
\* the iss fallback return a tenant outside these conditions.
C6_TenantOnlyForVerifiedDest ==
    vin.fn = "verify_session_token" =>
        LET tok == vin.arg
            rejected == vout = Ret(NoShop)
        IN  /\ NamesTenant =>
                /\ tok.kind = "jwt"
                /\ tok.dest # <<>>
                /\ vin.secret # Unset /\ tok.key = vin.secret /\ tok.alg = "HS256"
                /\ ~tok.expired
                /\ AudienceMatches(tok, vin.api_key)
                /\ vout.value = ShopOfDest(tok.dest)
            /\ tok.kind = "malformed" => rejected
            /\ tok.kind = "jwt" =>
                /\ tok.key # vin.secret => rejected
                /\ tok.expired => rejected
                /\ tok.dest = <<>> => rejected

\* C6, a state that refutes it: the text "dev-token-t1", which carries no
\* signature at all, was answered with the tenant t1.
C6_DevTokenNamesTenant ==
    /\ vin.fn = "verify_session_token"
    /\ vin.arg = DevToken("t1")
    /\ vin.secret = ApiSecret
    /\ vout = Ret("t1")

\* C7: with SHOPIFY_API_SECRET unset no verifier authenticates anything:
\* verify_session_token and verify_shopify_request name no tenant and
\* verify_shopify_webhook does not return True.  "dev-token-<shop>" is
\* answered with the shop before the secret is looked at.
C7_FailsClosedWithoutSecret ==
    (vin.fn # "none" /\ vin.secret = Unset) =>
        IF vin.fn = "verify_shopify_webhook"
        THEN vout.kind = "raise" \/ vout.value = FALSE
        ELSE ~NamesTenant

\* C7, a state that refutes it: no secret is configured and the session
\* token verifier has named the tenant t2.
C7_TenantWithoutSecret ==
    /\ vin.fn = "verify_session_token"
    /\ vin.secret = Unset
    /\ vout = Ret("t2")

\* The canonical string of a query: without hmac and signature, the pairs
\* in the order of their keys, each "k=v", joined by "&".
RECURSIVE Joined(_, _)
Joined(q, keys) ==
    IF keys = <<>> THEN <<>>
    ELSE <<Head(keys), "=", q[Head(keys)]>>
            \o (IF Len(keys) = 1 THEN <<>> ELSE <<"&">> \o Joined(q, Tail(keys)))

Canonical(q) ==
    Joined(q, SelectSeq(<<"host", "shop">>, LAMBDA k : k \in DOMAIN q))

\* The request is accepted: the verifier returned its shop.
Accepts(q, secret) ==
    LET out == verify_shopify_request(q, secret)
    IN  out.kind = "return" /\ ~Falsy(out.value) /\ out.value = q["shop"]

\* The values a parameter may be changed to.
OtherValues(q, k) ==
    (CASE k = "shop" -> {"t1", "t2", ""}
       [] k = "host" -> {"h", "h2"}
       [] k = "hmac" -> {Digest("hex", key, Canonical(m)) :
                            key \in {ApiSecret, OtherKey},
                            m \in {q, [q EXCEPT !["shop"] = IF @ = "t1" THEN "t2" ELSE "t1"]}}
       [] OTHER -> {}) \ {q[k]}

\* C22: with the secret configured, verify_shopify_request returns the shop
\* parameter exactly when shop and hmac are both there and hmac is the hex
\* HMAC, under the secret, of the canonical string; and an accepted request
\* is rejected once its hmac or the value of any parameter that enters the
\* canonical string is changed.
C22_AcceptsExactlyTheSigned ==
    (vin.fn = "verify_shopify_request" /\ vin.secret # Unset) =>
        LET q == vin.arg
            signed == /\ "shop" \in DOMAIN q /\ ~Falsy(q["shop"])
                      /\ "hmac" \in DOMAIN q
                      /\ q["hmac"] = Digest("hex", vin.secret, Canonical(q))
        IN  /\ vout.kind = "return"
            /\ IF signed THEN vout.value = q["shop"] ELSE vout.value = NoShop
            /\ signed =>
                  \A k \in DOMAIN q \ {"signature"} :
                      \A v \in OtherValues(q, k) :
                          ~Accepts([q EXCEPT ![k] = v], vin.secret)

\* C22, its case: a request with shop, host and the legacy signature
\* parameter, signed over shop and host, was accepted for t1.
C22_AcceptedWithLegacyParameter ==
    /\ vin.fn = "verify_shopify_request"
    /\ vin.secret = ApiSecret
    /\ DOMAIN vin.arg = {"shop", "host", "signature", "hmac"}
    /\ vout = Ret("t1")

\* C21: whatever a verifier is given, a missing header, a missing parameter
\* or a malformed token included, it returns a tenant or a rejection: no
\* exception leaves it.
C21_VerifiersNeverRaise ==
    vin.fn # "none" => vout.kind = "return"

\* C21, a state that refutes it: with the secret configured, the webhook
\* verifier was given a body and no X-Shopify-Hmac-Sha256 header, and raised.
C21_MissingHeaderRaises ==
    /\ vin.fn = "verify_shopify_webhook"
    /\ vin.secret = ApiSecret
    /\ vin.hmac_header = NoSignature
    /\ vout = Raised

\* The configuration main.py reads is SHOPIFY_API_KEY, SHOPIFY_API_SECRET
\* and APP_URL: there is no development switch, so none is ever on.
DevelopmentMode == FALSE

\* C20: a token that starts with "dev-token-" names a tenant only when a
\* development mode is enabled.  verify_session_token tests the prefix
\* first and consults nothing else.
C20_DevPathGated ==
    (vin.fn = "verify_session_token" /\ vin.arg.kind = "dev-token-" /\ NamesTenant)
        => DevelopmentMode

\* C20, a state that refutes it: with the secret and the API key of a
\* production deployment set, "dev-token-t2" was answered with t2.
C20_DevTokenInProduction ==
    /\ vin.fn = "verify_session_token"
    /\ vin.arg = DevToken("t2")
    /\ vin.secret = ApiSecret /\ vin.api_key = ApiKey
    /\ vout = Ret("t2")

----------------------------------------------------------------------------
(* Properties of the HTTP surface, under Spec. *)

\* A handler has answered in this step.
Answered(handler) == last'.seq # last.seq /\ last'.handler = handler

\* C1: whatever the interleaving of the widget_click handlers at their
\* awaits, the widget_clicks of a shop is the number of log_widget_click
\* calls that returned for it since it was last removed, on the file backend
\* and on SQLAlchemy: no increment is lost.
C1_NoLostIncrement ==
    \A shop \in Tenants : db_get_analytics(shop).widget_clicks = clicked[shop]

\* C1, its case: two clicks of t1 were logged, the second while another
\* widget_click handler was in flight, and the counter is 2.
C1_TwoConcurrentClicks ==
    /\ last.handler = "widget_click"
    /\ last.effect.logged /\ last.effect.in_flight >= 1
    /\ clicked["t1"] = 2
    /\ db_get_analytics("t1").widget_clicks = 2

\* C3: when the token endpoint answers the exchange with a status other
\* than 200, auth_callback answers 400 and the store is as it was: no
\* installation is created or overwritten.
C3_NonSuccessAborts ==
    [][(/\ Answered("auth_callback")
        /\ ~last'.request.response.raised
        /\ last'.request.response.status_code \notin {0, 200})
            => /\ UNCHANGED dbVars
               /\ last'.status = 400
               /\ ~last'.effect.saved]_vars

\* C3, its case: the exchange for t2 was answered 400 with a body that
\* carries an access_token; the callback answered 400 and t2 has no
\* installation.
C3_RefusedExchange ==
    /\ last.handler = "auth_callback"
    /\ last.request.query.shop = "t2"
    /\ last.request.response.status_code = 400
    /\ last.request.response.access_token = Some("tokB")
    /\ last.status = 400
    /\ db_get_installation("t2") = None

\* C4: an install_script_tag for a shop that already has a registration
\* whose src starts with APP_URL/whatsapp-widget.js issues no create call
\* and leaves exactly one such registration.  The list call's status is not
\* looked at, so a refused list reads as "no registrations".
C4_SecondCallCreatesNothing ==
    (/\ last.handler = "api_configure_whatsapp"
     /\ last.effect.provision.called
     /\ last.effect.provision.before >= 1)
        => /\ ~last.effect.provision.create_called
           /\ Cardinality(WidgetScripts(scriptTags[last.effect.shop])) = 1

\* C4, the state that refutes it: t1 has two registrations of the widget.
C4_TwoRegistrations ==
    /\ last.handler = "api_configure_whatsapp"
    /\ last.effect.provision.before = 1
    /\ last.effect.provision.create_called
    /\ Cardinality(WidgetScripts(scriptTags["t1"])) = 2

C8_ProvisioningFailureCaught ==
    [][(last'.seq # last.seq /\ last'.handler = "api_configure_whatsapp"
            /\ last'.effect.provision.called)
        => /\ last'.status = 200
           /\ last'.detail = "Configuration saved successfully"
           /\ \E shop \in Tenants :
                 /\ shop = last'.effect.shop
                 /\ db_get_whatsapp_config(shop)' # None
                 /\ db_get_whatsapp_config(shop)'[1].phone_number
                        = last'.request.body.phone_number
      ]_vars

\* C8, its case: install_script_tag raised and the answer is the success.
C8_RaisedAndSaved ==
    /\ last.handler = "api_configure_whatsapp"
    /\ last.effect.provision.called /\ last.effect.provision.raised
    /\ last.status = 200
    /\ db_get_whatsapp_config(last.effect.shop) # None

\* What is left of a phone number without its "+", "-" and " ".
Stripped(phone_number) == SelectSeq(phone_number, LAMBDA c : c \notin {"+", "-", " "})

\* C11: every phone_number of a stored configuration is, without its "+",
\* "-" and spaces, a non-empty string of digits, whichever of the two
\* configuration endpoints stored it.
C11_StoredPhoneIsNumeric ==
    \A shop \in Tenants :
        db_get_whatsapp_config(shop) # None =>
            LET digits == Stripped(db_get_whatsapp_config(shop)[1].phone_number)
            IN  digits # <<>> /\ \A i \in 1..Len(digits) : digits[i] \in Digits

\* C11, its case: the form endpoint refused "c-m" for t1 after a number
\* had been stored for it, and the stored number is the old one.
C11_RefusedAfterStored ==
    /\ last.handler = "configure_whatsapp"
    /\ last.request.shop = "t1" /\ last.request.phone_number = <<"c", "-", "m">>
    /\ last.status = 400
    /\ db_get_whatsapp_config("t1") # None
    /\ db_get_whatsapp_config("t1")[1].phone_number = <<"+", "1", " ", "5", "-", "5">>

\* Another api_configure_whatsapp for the shop of `task` waits for its body.
WaitsBehind(task) ==
    \E other \in BagToSet(tasks) :
        /\ other.handler = "api_configure_whatsapp"
        /\ other.pc = "form" /\ other.shop = task.shop

\* C17, as the code has it: an install_script_tag that has listed the
\* registrations and goes on to create one is not interleaved with anything
\* in the process: the next step is its own create call and the answer of
\* its handler, and no registration is added at any other step.  A second
\* call for the shop lists after the first has created.
C17_ProvisioningIsSerial ==
    [][/\ \A task \in BagToSet(tasks) :
            task.pc = "create" =>
                /\ tasks' = tasks (-) SetToBag({task})
                /\ Answered("api_configure_whatsapp")
       /\ \A shop \in Tenants :
            scriptTags'[shop] # scriptTags[shop] =>
                \E task \in BagToSet(tasks) : task.pc = "create" /\ task.shop = shop]_vars

\* C17, its case: a call for t1 has listed and found no registration of
\* the widget while a second request for t1 is in flight.
C17_SecondCallWaits ==
    \E task \in BagToSet(tasks) :
        /\ task.pc = "create" /\ task.shop = "t1" /\ task.obj[1].list = "ok"
        /\ WaitsBehind(task)

\* C17, as stated: while a call for a shop has listed and not yet created,
\* a second call for the shop that is in flight can go on to its own list
\* call, so that both list before either creates.
C17_BothListBeforeEitherCreates ==
    \A task \in BagToSet(tasks) :
        (task.pc = "create" /\ WaitsBehind(task)) => ENABLED api_configure_whatsapp_finish

\* C23: a configuration endpoint that has saved the configuration has then
\* called install_script_tag for the shop, the form endpoint as well as the
\* JSON endpoint.
C23_SaveThenProvision ==
    (last.handler \in {"configure_whatsapp", "api_configure_whatsapp"} /\ last.effect.saved)
        => last.effect.provision.called

\* C23, the state that refutes it: the form endpoint saved a configuration
\* for t2 and answered with the redirect; install_script_tag was not called
\* and t2 has no registration of the widget.
C23_FormSavesWithoutProvisioning ==
    /\ last.handler = "configure_whatsapp" /\ last.request.shop = "t2"
    /\ last.status = 303 /\ last.effect.saved
    /\ ~last.effect.provision.called
    /\ db_get_whatsapp_config("t2") # None
    /\ WidgetScripts(scriptTags["t2"]) = {}

\* C18: auth_callback answers a successful exchange with the redirect to
\* the dashboard and everything else with a status of the 400 class: the
\* error parameter, a missing shop or code, a token response that is not
\* 200, one that has no access_token, and a POST that raised.
C18_CallbackRedirectsOr4xx ==
    last.handler = "auth_callback" =>
        LET query == last.request.query
            response == last.request.response
            exchanged == /\ ~query.error /\ query.shop # "" /\ query.code # ""
                         /\ ~response.raised /\ response.status_code = 200
                         /\ response.access_token # None
        IN  IF exchanged /\ ~last.effect.db_raised
            THEN last.status = 307 /\ last.detail = "/dashboard"
            ELSE last.status >= 400 /\ last.status < 500

\* C18, the state that refutes it: the token endpoint answered 200 with a
\* body that has no access_token and the callback answered 500.
C18_MissingFieldIs500 ==
    /\ last.handler = "auth_callback"
    /\ last.request.response.status_code = 200
    /\ last.request.response.access_token = None
    /\ last.status = 500

\* An answer that tells the caller the request succeeded.
SuccessResponse(answer) == answer.status < 400 /\ answer.detail # "success: False"

\* C19: a handler in which a call on the store raised does not answer with
\* a success.
C19_StoreFailureSurfaces ==
    (last.handler # "none" /\ last.effect.db_raised) => ~SuccessResponse(last)

\* C19, the state that refutes it: remove_installation raised in
\* app_uninstalled, the webhook was answered 200 "success: True" and t1 is
\* still installed.
C19_UninstallSwallowed ==
    /\ last.handler = "app_uninstalled"
    /\ last.effect.db_raised
    /\ last.status = 200 /\ last.detail = "success: True"
    /\ db_get_installation("t1") # None

\* The shop an answered request was about.
HandledShop(answer) ==
    CASE answer.handler = "auth_callback" -> answer.request.query.shop
      [] answer.handler = "api_configure_whatsapp" -> answer.effect.shop
      [] answer.handler = "configure_whatsapp" -> answer.request.shop
      [] answer.handler = "widget_click" -> answer.request.body.shop
      [] answer.handler = "app_uninstalled" -> json_loads(answer.request.body).domain
      [] OTHER -> NoShop

\* What the store in use holds for a shop.
Records(shop) ==
    <<db_get_installation(shop), db_get_whatsapp_config(shop), db_get_analytics(shop)>>

\* The step answers a request about the shop, or takes a request about it
\* from the save of its configuration to the create call.
StepOf(shop) ==
    \/ last'.seq = last.seq + 1 /\ HandledShop(last') = shop
    \/ \E task \in BagToSet(tasks') :
            /\ task.pc = "create" /\ task.shop = shop
            /\ CopiesIn(task, tasks') > CopiesIn(task, tasks)

\* C15: a step changes the installation, the configuration, the counter or
\* the registrations of a shop only when it is a step of a request about
\* that shop; so the records of a shop are what the requests about it made
\* them, whatever the requests about other shops and however the handlers
\* interleave.
C15_OnlyTheHandledShopChanges ==
    [][\A shop \in Tenants :
         (Records(shop)' # Records(shop) \/ scriptTags'[shop] # scriptTags[shop])
             => StepOf(shop)]_vars

\* C15, its case: t2 was installed and t1 removed while a click of t2 was
\* in flight; the click found t2's counter untouched and made it 1.
C15_InterleavedTenants ==
    /\ last.handler = "widget_click" /\ last.request.body.shop = "t2"
    /\ last.effect.logged
    /\ db_get_analytics("t2").widget_clicks = 1
    /\ db_get_installation("t1") = None

\* The body of a response: what a reading endpoint put together, the
\* detail of an HTTPException or the message of a JSON answer, the URL of a
\* redirect.
ResponseBody(answer) ==
    IF "body" \in DOMAIN answer.effect THEN answer.effect.body
    ELSE IF answer.status \in {303, 307} THEN <<answer.detail, HandledShop(answer)>>
    ELSE <<answer.detail>>

\* The access tokens the store in use holds, and those the token endpoint
\* hands out.
StoredCredentials ==
    {db_get_installation(shop)[1].access_token :
        shop \in {t \in Tenants : db_get_installation(t) # None}}

\* C16: no response body and no widget script carries an access token, and
\* the outbound call of a reading endpoint carries the shop's token in its
\* X-Shopify-Access-Token header and nowhere else.
C16_CredentialStaysInside ==
    LET body == ResponseBody(last)
    IN  /\ \A i \in 1..Len(body) : body[i] \notin Credentials \cup StoredCredentials
        /\ "outbound" \in DOMAIN last.effect =>
              LET outbound == last.effect.outbound
              IN  /\ \A i \in 1..Len(outbound.url) : outbound.url[i] \notin Credentials
                  /\ \A i \in 1..Len(outbound.headers) :
                        outbound.headers[i] \in Credentials =>
                            /\ i > 1 /\ outbound.headers[i - 1] = "X-Shopify-Access-Token"
                            /\ outbound.headers[i]
                                  = db_get_installation(last.request.shop)[1].access_token

\* C16, its case: the debug endpoint listed the registrations of t2, which
\* was installed with tokB, and sent the token in the header of its call.
C16_DebugOfInstalledShop ==
    /\ last.handler = "debug_script_tags" /\ last.request.shop = "t2"
    /\ last.request.outcome = "ok"
    /\ db_get_installation("t2") # None
    /\ last.effect.outbound.headers[2] = "tokB"

\* C24: the three GET endpoints leave the store as it was; /api/config and
\* /api/analytics answer 200, with the data of the shop the bearer token
\* verifies to, only when the request carries such a token, and 401
\* otherwise; /api/config-fallback answers 200 only for a shop that has an
\* installation.
C24_ReadsNeedIdentity ==
    [][/\ (Answered("get_config") \/ Answered("get_analytics")) =>
            LET authorization == last'.request.authorization
                verified == IF authorization.bearer
                            THEN verify_session_token(authorization.token, env.secret,
                                                      env.api_key).value
                            ELSE NoShop
            IN  /\ UNCHANGED dbVars
                /\ IF Falsy(verified) THEN last'.status = 401
                   ELSE /\ last'.status = 200
                        /\ last'.effect.body =
                              IF last'.handler = "get_config"
                              THEN ConfigText(db_get_whatsapp_config(verified))
                              ELSE AnalyticsText(db_get_analytics(verified))
       /\ Answered("get_config_fallback") =>
            /\ UNCHANGED dbVars
            /\ IF db_get_installation(last'.request.shop) = None
               THEN last'.status \in {400, 401}
               ELSE last'.status = 200]_vars

\* C24, the state that refutes it: /api/config was asked for t1 without an
\* Authorization header and answered 200 with the configuration of t1.
C24_ConfigWithoutToken ==
    /\ last.handler = "get_config"
    /\ last.request.authorization = NoAuthorization /\ last.request.shop = "t1"
    /\ last.status = 200
    /\ db_get_whatsapp_config("t1") # None
    /\ last.effect.body = ConfigText(db_get_whatsapp_config("t1"))

\* A non-empty string of digits once "+", "-" and " " are taken out.
NumericFormat(phone_number) ==
    LET digits == Stripped(phone_number)
    IN  digits # <<>> /\ \A i \in 1..Len(digits) : digits[i] \in Digits

\* The phone number an answer of a configuration endpoint is about, when the
\* handler got to read one.
PhoneOf(answer) ==
    IF answer.handler = "configure_whatsapp" THEN Some(answer.request.phone_number)
    ELSE IF answer.handler = "api_configure_whatsapp" /\ "body" \in DOMAIN answer.request
            /\ answer.request.body.json
    THEN Some(answer.request.body.phone_number)
    ELSE None

\* C26: both configuration endpoints accept a phone number exactly when it
\* is, without its "+", "-" and spaces, a non-empty string of digits: a
\* number of another form is answered with a 4xx status and the store is
\* left as it was, a number of that form is never refused for its format,
\* and an answer of success has stored the number as it was sent.
C26_AcceptsExactlyNumeric ==
    [][\A handler \in {"configure_whatsapp", "api_configure_whatsapp"} :
         (Answered(handler) /\ PhoneOf(last') # None) =>
            LET phone_number == PhoneOf(last')[1]
                shop == HandledShop(last')
            IN  /\ ~NumericFormat(phone_number) =>
                      /\ last'.status \in 400..499
                      /\ ~last'.effect.saved
                      /\ UNCHANGED dbVars
                /\ NumericFormat(phone_number) =>
                      /\ last'.detail \notin {"Invalid phone number format", "Field required"}
                      /\ last'.detail = "Missing required fields" =>
                            last'.request.body.initial_message = ""
                /\ last'.status \in {200, 303} =>
                      /\ NumericFormat(phone_number)
                      /\ last'.effect.saved
                      /\ \E tenant \in Tenants :
                            /\ tenant = shop
                            /\ db_get_whatsapp_config(tenant)' # None
                            /\ db_get_whatsapp_config(tenant)'[1].phone_number = phone_number
      ]_vars

\* C26, its case: the JSON endpoint took a number of digits alone and
\* stored it.
C26_DigitsAloneStored ==
    /\ last.handler = "api_configure_whatsapp"
    /\ PhoneOf(last) = Some(<<"1", "5">>)
    /\ last.status = 200
    /\ db_get_whatsapp_config("t1") # None
    /\ db_get_whatsapp_config("t1")[1].phone_number = <<"1", "5">>

\* C27: an auth_callback that was handed a shop and a code posts the code
\* to the token endpoint once, whatever the endpoint answers, and one that
\* was not posts nothing; when the exchange succeeds the installation stored
\* for the shop carries the access_token of that response and is stamped
\* once, and when it does not succeed the store is left as it was.
C27_OneExchangePerCode ==
    [][Answered("auth_callback") =>
         LET query == last'.request.query
             response == last'.request.response
             delivered == ~query.error /\ query.shop # "" /\ query.code # ""
             success == /\ delivered /\ ~response.raised /\ response.status_code = 200
                        /\ response.access_token # None
         IN  /\ last'.effect.posts = IF delivered THEN 1 ELSE 0
             /\ ~delivered => response = NotAsked
             /\ (success /\ ~last'.effect.db_raised) =>
                   /\ last'.effect.saved
                   /\ now' = now + 1
                   /\ \E tenant \in Tenants :
                         /\ tenant = query.shop
                         /\ db_get_installation(tenant)' # None
                         /\ db_get_installation(tenant)'[1].access_token =
                                response.access_token[1]
             /\ ~success => ~last'.effect.saved /\ UNCHANGED <<dbVars, now>>
      ]_vars

\* C27, its case: the token endpoint refused the code for t2, the callback
\* answered 400 after its one POST and t2 has no installation.
C27_RefusedOnce ==
    /\ last.handler = "auth_callback"
    /\ last.request.query.shop = "t2"
    /\ last.request.response.status_code = 400
    /\ last.status = 400 /\ last.effect.posts = 1
    /\ db_get_installation("t2") = None

\* A handler is inside an outbound call to the platform.
InOutboundCall ==
    \E task \in BagToSet(tasks) : task.pc \in {"post_token", "get_scripts", "post_script"}

\* C28: a handler that is inside an outbound call to the platform comes out
\* of it, whether or not the platform answers.
C28_OutboundCallsEnd == InOutboundCall ~> ~InOutboundCall

\* C28, its case: the configuration of t1 was saved, the list call of
\* install_script_tag got no answer, and the handler has not responded.
C28_SavedAndNeverAnswered ==
    /\ \E task \in BagToSet(tasks) :
            /\ task.handler = "api_configure_whatsapp"
            /\ task.pc = "get_scripts" /\ task.shop = "t1"
    /\ db_get_whatsapp_config("t1") # None
    /\ last.handler # "api_configure_whatsapp"
    /\ ~ENABLED SilentNext

\* C29: every request that POST /api/configure-whatsapp rejects as
\* unauthenticated gets the response a request without a token gets, in
\* status and in body.
C29_RejectionsAlike ==
    (last.handler = "api_configure_whatsapp" /\ last.status = 401) =>
        last.detail = "Missing or invalid session token"

\* C29, its case: a token that verifies for a shop without an installation
\* was answered 401 "App not installed".
C29_NotInstalledTold ==
    /\ last.handler = "api_configure_whatsapp"
    /\ last.status = 401 /\ last.detail = "App not installed"
    /\ "authorization" \in DOMAIN last.request
    /\ last.request.authorization.bearer
    /\ db_get_installation(last.effect.shop) = None

\* C30: whatever the handlers did and wherever they were suspended, a shop
\* with a stored configuration has a stored installation.
C30_ConfigHasInstallation ==
    \A shop \in Tenants :
        db_get_whatsapp_config(shop) # None => db_get_installation(shop) # None

\* C30, its case: the handler read the installation of t1 from its token,
\* waited for the body while the uninstall webhook removed t1, and then
\* saved the configuration and answered success.
C30_SavedAfterUninstall ==
    /\ last.handler = "api_configure_whatsapp"
    /\ last.status = 200 /\ last.effect.saved
    /\ "token_shop" \in DOMAIN last.request /\ last.request.token_shop = "t1"
    /\ db_get_installation("t1") = None
    /\ db_get_whatsapp_config("t1") # None

\* C31: install_script_tag goes on to its create call only for a shop that
\* has an installation, after a list call that answered with the
\* registrations, and while no registration of the shop starts with the
\* widget's base URL; for a shop without an installation it makes no
\* outbound call.
C31_CreateOnlyAfterEmptyListing ==
    /\ \A task \in BagToSet(tasks) :
            task.pc = "create" =>
                /\ db_get_installation(task.shop) # None
                /\ task.obj[1].list = "ok"
                /\ WidgetScripts(scriptTags[task.shop]) = {}
    /\ (last.handler = "api_configure_whatsapp" /\ last.effect.provision.called
            /\ db_get_installation(last.effect.shop) = None) =>
                ~last.effect.provision.list_called /\ ~last.effect.provision.create_called

\* C31, its case: the list call for t1 was answered with a non-success
\* status, t1 has a registration of the widget on the platform, and
\* install_script_tag is about to create another.
C31_CreateAfterRefusedListing ==
    \E task \in BagToSet(tasks) :
        /\ task.pc = "create" /\ task.shop = "t1"
        /\ task.obj[1].list = "error_json"
        /\ WidgetScripts(scriptTags["t1"]) # {}
        /\ db_get_installation("t1") # None

\* C32: a POST /api/configure-whatsapp whose bearer token verified for a
\* shop writes the configuration of that shop, with the values of the body,
\* and of no other shop, whatever shop the body names; the shop of the body
\* is the one written only when no token verified, and then it has an
\* installation.  A handler goes on with the shop of a token only when some
\* Authorization header verifies for it.
C32_TokenNamesTheTenant ==
    [][/\ (Answered("api_configure_whatsapp") /\ last'.effect.saved) =>
             LET request == last'.request
                 tenant == IF ~Falsy(request.token_shop) THEN request.token_shop
                           ELSE request.body.shop
             IN  /\ last'.effect.shop = tenant
                 /\ \E shop \in Tenants :
                       /\ shop = tenant
                       /\ db_get_whatsapp_config(shop)' # None
                       /\ db_get_whatsapp_config(shop)'[1].phone_number
                              = request.body.phone_number
                       /\ db_get_whatsapp_config(shop)'[1].initial_message
                              = request.body.initial_message
                       /\ Falsy(request.token_shop) => db_get_installation(shop)' # None
       /\ \A task \in BagToSet(tasks) :
             (/\ task.handler = "api_configure_whatsapp"
              /\ task.pc \in {"form", "body"}
              /\ CopiesIn(task, tasks') < CopiesIn(task, tasks)) =>
                \A other \in Tenants :
                    db_get_whatsapp_config(other)' # db_get_whatsapp_config(other) =>
                        IF task.pc = "form" THEN other = task.shop
                        ELSE db_get_installation(other) # None
       /\ \A task \in BagToSet(tasks') :
             (/\ task.handler = "api_configure_whatsapp"
              /\ task.pc = "form"
              /\ CopiesIn(task, tasks') > CopiesIn(task, tasks)) =>
                \E authorization \in Authorizations :
                    /\ authorization.bearer
                    /\ verify_session_token(authorization.token, env.secret,
                                            env.api_key).value = task.shop
      ]_vars

\* C32, its case: the token verified for t1, the body named the installed
\* shop t2, and the configuration was written for t1 and not for t2.
C32_BodyNamesAnotherShop ==
    /\ last.handler = "api_configure_whatsapp"
    /\ last.effect.saved
    /\ last.request.token_shop = "t1" /\ last.request.body.shop = "t2"
    /\ db_get_installation("t2") # None
    /\ db_get_whatsapp_config("t1") # None
    /\ db_get_whatsapp_config("t2") = None

====
